---------------------------- MODULE Spec2Model ----------------------------
(***************************************************************************)
(* Verification model of the validation / status-classification pipeline   *)
(* of the Cucumber report viewer:                                          *)
(*   TestStatusCalculator   (src/unnamed/part_000)                         *)
(*   CucumberJsonValidator  (src/cucumber-report-viewer/src/utils)         *)
(*   DataIntegrityValidator (src/unnamed/part_002)                         *)
(*   DiagnosticTools        (src/cucumber-report-viewer/src/utils)         *)
(*   DebugPanel             (src/unnamed/part_004)                         *)
(*                                                                         *)
(* A JavaScript value is a record with one field, named after its kind:    *)
(* [number |-> 7], [string |-> <<"a">>], [object |-> [name |-> ...]]:      *)
(* the reports are untyped JSON, and the code's behaviour on null, on a    *)
(* number or on a missing property is part of what is verified.            *)
(* A string is a sequence of chunks of text.  Text taken from a literal of *)
(* the source is one chunk per literal ("Setup failed: "), words compared  *)
(* with such literals are one chunk ("failed"), and free text (names,      *)
(* error messages) is one chunk per character, so that trim, toLowerCase   *)
(* and replace are computed character by character.                        *)
(***************************************************************************)
EXTENDS Integers, Sequences, FiniteSets, TLC

VARIABLES
    tscOptions,   \* TestStatusCalculator.options of the instance
    tscArg,       \* the value handed to the calculator
    tscRet,       \* what the last call on the calculator produced
    cjvOptions,   \* CucumberJsonValidator.options of the instance
    validationErrors,    \* CucumberJsonValidator.validationErrors
    validationWarnings,  \* CucumberJsonValidator.validationWarnings
    processedEntries,    \* CucumberJsonValidator.processedEntries
    skippedEntries,      \* CucumberJsonValidator.skippedEntries
    cjvArg,       \* the value handed to validateReport
    cjvRet,       \* what the last validateReport call produced
    divOptions,   \* DataIntegrityValidator.options of the instance
    validationHistory,   \* DataIntegrityValidator.validationHistory
    divArg,       \* the data, original JSON and expected counts handed over
    divRet,       \* what the last call on the integrity validator produced
    dtArg,        \* the arguments handed to the diagnostic tools
    dtRet,        \* what the last call on the diagnostic tools produced
    ideOutputText,       \* DebugPanel.ideOutputText
    ideOutput,           \* DebugPanel.ideOutput
    comparisonResults,   \* DebugPanel.comparisonResults
    diagnosticResults,   \* DebugPanel.diagnosticResults
    debugInfo,           \* DebugPanel.debugInfo
    placeholderNames,    \* FailedScenarioDisplayHandler.placeholderNames
    errorGuidanceCache,  \* ExecutionErrorFeatureHandler.errorGuidanceCache
    dqmRet        \* the last call on the data quality pipeline and its outcome

tscVars == <<tscOptions, tscArg, tscRet>>
cjvVars == <<cjvOptions, validationErrors, validationWarnings,
             processedEntries, skippedEntries, cjvArg, cjvRet>>
divVars == <<divOptions, validationHistory, divArg, divRet>>
dtVars == <<dtArg, dtRet>>
panelVars == <<ideOutputText, ideOutput, comparisonResults, diagnosticResults, debugInfo>>
cacheVars == <<placeholderNames, errorGuidanceCache, dqmRet>>
vars == <<tscOptions, tscArg, tscRet, cjvOptions, validationErrors,
          validationWarnings, processedEntries, skippedEntries, cjvArg, cjvRet,
          divOptions, validationHistory, divArg, divRet, dtArg, dtRet,
          ideOutputText, ideOutput, comparisonResults, diagnosticResults, debugInfo,
          placeholderNames, errorGuidanceCache, dqmRet>>

-----------------------------------------------------------------------------
(* Bounds of the model *)

MaxHooks == 2      \* most hooks of a scenario, before and after hooks together
MaxSteps == 2      \* longest step list of a scenario
MaxElements == 3   \* longest element list of a feature given to the calculator
MaxScenarios == 2  \* most scenarios of a feature given to the validator
MaxFeatures == 2   \* most features of a report given to the validator
MaxCount == 4      \* largest count of the count sets that are compared
MaxCalls == 3      \* most validations recorded by one integrity validator

-----------------------------------------------------------------------------
(* JavaScript values *)

Undefined == [undefined |-> TRUE]
Null == [null |-> TRUE]
Bool(b) == [boolean |-> b]
Num(n) == [number |-> n]
Str(s) == [string |-> s]
Arr(a) == [array |-> a]
Obj(f) == [object |-> f]

\* typeof-like kind of a value, and its payload.
Kind(x) == CHOOSE k \in DOMAIN x : TRUE
Val(x) == x[Kind(x)]

\* The object literal {} (a record with no field).
EmptyObj == Obj([f \in {} |-> Undefined])

\* x === y
StrictEq(x, y) == Kind(x) = Kind(y) /\ x = y

\* !!x
Truthy(x) ==
    CASE Kind(x) = "undefined" -> FALSE
      [] Kind(x) = "null" -> FALSE
      [] Kind(x) = "boolean" -> Val(x)
      [] Kind(x) = "number" -> Val(x) # 0
      [] Kind(x) = "string" -> Val(x) # <<>>
      [] OTHER -> TRUE

\* x.f for a value x that is neither null nor undefined: a primitive and an
\* object without the property both give undefined.
Get(x, f) == IF Kind(x) = "object" /\ f \in DOMAIN Val(x) THEN Val(x)[f] ELSE Undefined

\* x || y
Or(x, y) == IF Truthy(x) THEN x ELSE y

\* Array.isArray(x)
IsArray(x) == Kind(x) = "array"

\* { ...x, f1: v1, ... }: the fields of `over` replace or extend those of x.
Spread(x, over) ==
    Obj([f \in (DOMAIN Val(x)) \cup (DOMAIN over) |->
            IF f \in DOMAIN over THEN over[f] ELSE Val(x)[f]])

\* String.prototype.trim on a chunked string.
Blank == {" ", "\t", "\n"}

RECURSIVE TrimLeft(_)
TrimLeft(s) == IF s # <<>> /\ Head(s) \in Blank THEN TrimLeft(Tail(s)) ELSE s

RECURSIVE TrimRight(_)
TrimRight(s) ==
    IF s # <<>> /\ s[Len(s)] \in Blank THEN TrimRight(SubSeq(s, 1, Len(s) - 1)) ELSE s

Trim(s) == TrimRight(TrimLeft(s))

-----------------------------------------------------------------------------
(* TestStatusCalculator *)

\* constructor(options): a flag is on unless the option is exactly false.
TestStatusCalculator(options) ==
    [treatSetupFailuresAsFailed |->
        ~StrictEq(Get(options, "treatSetupFailuresAsFailed"), Bool(FALSE)),
     treatTeardownFailuresAsFailed |->
        ~StrictEq(Get(options, "treatTeardownFailuresAsFailed"), Bool(FALSE))]

MaxErrorMessageLength == 500

sanitizeErrorMessage(errorMessage) ==
    IF ~Truthy(errorMessage) \/ Kind(errorMessage) # "string"
    THEN Str(<<"Unknown error">>)
    ELSE IF Len(Val(errorMessage)) > MaxErrorMessageLength
         THEN Str(SubSeq(Val(errorMessage), 1, MaxErrorMessageLength) \o <<"... (truncated)">>)
         ELSE Str(Trim(Val(errorMessage)))

\* Called on a hook or step of an array: never on a missing argument.
extractErrorMessage(item) ==
    IF ~Truthy(item) THEN Null
    ELSE LET result == Get(item, "result") IN
         IF Truthy(result) /\ Truthy(Get(result, "error_message"))
         THEN sanitizeErrorMessage(Get(result, "error_message"))
         ELSE IF Truthy(result) /\ Truthy(Get(result, "errorMessage"))
         THEN sanitizeErrorMessage(Get(result, "errorMessage"))
         ELSE IF Truthy(Get(item, "error_message"))
         THEN sanitizeErrorMessage(Get(item, "error_message"))
         ELSE IF Truthy(result) /\ StrictEq(Get(result, "status"), Str(<<"failed">>))
         THEN Str(<<"Step or hook failed (no error message available)">>)
         ELSE Null

getHookStatus(hook) ==
    IF ~Truthy(hook) THEN Str(<<"unknown">>)
    ELSE IF Truthy(Get(hook, "result"))
         THEN Or(Get(Get(hook, "result"), "status"), Str(<<"unknown">>))
         ELSE IF Truthy(Get(hook, "status")) THEN Get(hook, "status")
         ELSE Str(<<"unknown">>)

getStepStatus(step) ==
    IF ~Truthy(step) THEN Str(<<"unknown">>)
    ELSE IF Truthy(Get(step, "result"))
         THEN Or(Get(Get(step, "result"), "status"), Str(<<"unknown">>))
         ELSE IF Truthy(Get(step, "status")) THEN Get(step, "status")
         ELSE Str(<<"unknown">>)

\* The loop over the hooks of one phase, from hook i on, with the status found
\* so far: the first failed hook ends it.
RECURSIVE HookLoop(_, _, _)
HookLoop(hooks, i, status) ==
    IF i > Len(hooks)
    THEN [status |-> status, failureReason |-> Null]
    ELSE LET hookStatus == getHookStatus(hooks[i]) IN
         IF StrictEq(hookStatus, Str(<<"failed">>))
         THEN [status |-> "failed", failureReason |-> extractErrorMessage(hooks[i])]
         ELSE HookLoop(hooks, i + 1,
                       IF StrictEq(hookStatus, Str(<<"passed">>)) THEN "passed" ELSE status)

analyzeSetupPhase(scenario) ==
    LET before == Get(scenario, "before") IN
    IF ~Truthy(before) \/ ~IsArray(before)
    THEN [status |-> "not_executed", hasHooks |-> FALSE, failureReason |-> Null]
    ELSE LET r == HookLoop(Val(before), 1, "not_executed") IN
         [status |-> r.status, hasHooks |-> Len(Val(before)) > 0,
          failureReason |-> r.failureReason]

analyzeTeardownPhase(scenario) ==
    LET after == Get(scenario, "after") IN
    IF ~Truthy(after) \/ ~IsArray(after)
    THEN [status |-> "not_executed", hasHooks |-> FALSE, failureReason |-> Null]
    ELSE LET r == HookLoop(Val(after), 1, "not_executed") IN
         [status |-> r.status, hasHooks |-> Len(Val(after)) > 0,
          failureReason |-> r.failureReason]

\* The failureReason left by the loop over the steps: that of the last failed step.
RECURSIVE LastFailureReason(_, _)
LastFailureReason(steps, i) ==
    IF i = 0 THEN Null
    ELSE IF StrictEq(getStepStatus(steps[i]), Str(<<"failed">>))
         THEN extractErrorMessage(steps[i])
         ELSE LastFailureReason(steps, i - 1)

\* Mutant: a passed step makes the phase passed even beside a skipped step.
analyzeExecutionPhaseLenient(scenario) ==
    LET steps == Get(scenario, "steps") IN
    IF ~Truthy(steps) \/ ~IsArray(steps)
    THEN [status |-> "not_executed", hasSteps |-> FALSE, failureReason |-> Null]
    ELSE LET Has(word) == \E i \in 1..Len(Val(steps)) :
                              StrictEq(getStepStatus(Val(steps)[i]), Str(<<word>>))
         IN [status |->
                IF Has("failed") THEN "failed"
                ELSE IF Has("passed") THEN "passed"
                ELSE IF Has("skipped") THEN "skipped"
                ELSE "not_executed",
             hasSteps |-> Len(Val(steps)) > 0,
             failureReason |-> LastFailureReason(Val(steps), Len(Val(steps)))]

analyzeExecutionPhase(scenario) ==
    LET steps == Get(scenario, "steps") IN
    IF ~Truthy(steps) \/ ~IsArray(steps)
    THEN [status |-> "not_executed", hasSteps |-> FALSE, failureReason |-> Null]
    ELSE LET Has(word) == \E i \in 1..Len(Val(steps)) :
                              StrictEq(getStepStatus(Val(steps)[i]), Str(<<word>>))
             hasPassedSteps == Has("passed")
             hasFailedSteps == Has("failed")
             hasSkippedSteps == Has("skipped")
         IN [status |->
                IF hasFailedSteps THEN "failed"
                ELSE IF hasPassedSteps /\ ~hasSkippedSteps THEN "passed"
                ELSE IF hasSkippedSteps /\ ~hasPassedSteps THEN "skipped"
                ELSE IF hasPassedSteps /\ hasSkippedSteps THEN "mixed"
                ELSE "not_executed",
             hasSteps |-> Len(Val(steps)) > 0,
             failureReason |-> LastFailureReason(Val(steps), Len(Val(steps)))]

\* Mutant: the steps alone decide, the hooks are not looked at.
determineOverallStatusStepsOnly(self, setupResult, executionResult, teardownResult) ==
    CASE executionResult.status \in {"failed", "mixed"} ->
            [status |-> "failed", reason |-> <<"Test execution failed: ">>]
      [] executionResult.status = "passed" ->
            [status |-> "passed", reason |-> <<"All steps passed successfully">>]
      [] executionResult.status = "skipped" ->
            [status |-> "skipped", reason |-> <<"Test steps were skipped">>]
      [] OTHER ->
            [status |-> IF executionResult.hasSteps THEN "unknown" ELSE "skipped",
             reason |-> <<"No executable steps found">>]

determineOverallStatus(self, setupResult, executionResult, teardownResult) ==
    IF self.treatSetupFailuresAsFailed /\ setupResult.status = "failed"
    THEN [status |-> "failed",
          reason |-> <<"Setup failed: ">>
                     \o Val(Or(setupResult.failureReason, Str(<<"Before hook failed">>)))]
    ELSE IF self.treatTeardownFailuresAsFailed /\ teardownResult.status = "failed"
    THEN [status |-> "failed",
          reason |-> <<"Teardown failed: ">>
                     \o Val(Or(teardownResult.failureReason, Str(<<"After hook failed">>)))]
    ELSE CASE executionResult.status = "failed" ->
                [status |-> "failed",
                 reason |-> <<"Test execution failed: ">>
                            \o Val(Or(executionResult.failureReason, Str(<<"Step failed">>)))]
           [] executionResult.status = "passed" ->
                [status |-> "passed", reason |-> <<"All steps passed successfully">>]
           [] executionResult.status = "skipped" ->
                [status |-> "skipped", reason |-> <<"Test steps were skipped">>]
           [] executionResult.status = "mixed" ->
                [status |-> "failed", reason |-> <<"Some steps failed or were skipped">>]
           [] executionResult.status = "not_executed" ->
                IF ~executionResult.hasSteps
                THEN [status |-> "skipped", reason |-> <<"No executable steps found">>]
                ELSE [status |-> "unknown",
                      reason |-> <<"Steps present but execution status unclear">>]
           [] OTHER ->
                [status |-> "unknown", reason |-> <<"Unable to determine execution status">>]

\* No statement of the try block can throw on a JSON value (every property
\* read is made on a value already tested to be truthy), so the catch branch,
\* which alone sets status "error", is not reached.
calculateScenarioStatus(self, scenario) ==
    IF ~Truthy(scenario)
    THEN [status |-> "unknown", reason |-> <<"Scenario is null or undefined">>]
    ELSE LET setupResult == analyzeSetupPhase(scenario)
             executionResult == analyzeExecutionPhase(scenario)
             teardownResult == analyzeTeardownPhase(scenario)
             overallStatus ==
                 determineOverallStatus(self, setupResult, executionResult, teardownResult)
         IN [status |-> overallStatus.status,
             reason |-> overallStatus.reason,
             details |-> [setupStatus |-> setupResult.status,
                          executionStatus |-> executionResult.status,
                          teardownStatus |-> teardownResult.status,
                          hasSteps |-> executionResult.hasSteps,
                          hasSetup |-> setupResult.hasHooks,
                          hasTeardown |-> teardownResult.hasHooks]]

\* String(n) for a count or an index n >= 0, one chunk per digit.
Digits == <<"0", "1", "2", "3", "4", "5", "6", "7", "8", "9">>

RECURSIVE NumToStr(_)
NumToStr(n) ==
    IF n < 10 THEN <<Digits[n + 1]>> ELSE NumToStr(n \div 10) \o <<Digits[(n % 10) + 1]>>

\* What a call produced: a returned value or a thrown exception.
Returned(value) == [threw |-> FALSE, value |-> value]
Thrown(error) == [threw |-> TRUE, error |-> error]

\* Mutant: only the status error is counted under errors, unknown under nothing.
countScenarioStatusesErrorOnly(self, scenarios) ==
    LET status == [i \in 1..Len(scenarios) |->
                      calculateScenarioStatus(self, scenarios[i]).status]
        Count(which) == Cardinality({i \in 1..Len(scenarios) : status[i] \in which})
    IN [passed |-> Count({"passed"}),
        failed |-> Count({"failed"}),
        skipped |-> Count({"skipped"}),
        errors |-> Count({"error"}),
        total |-> Len(scenarios)]

\* The forEach over the scenarios of a feature: each scenario's status is
\* counted under passed, failed or skipped, and any other status under errors.
countScenarioStatuses(self, scenarios) ==
    LET status == [i \in 1..Len(scenarios) |->
                      calculateScenarioStatus(self, scenarios[i]).status]
        Count(which) == Cardinality({i \in 1..Len(scenarios) : status[i] \in which})
    IN [passed |-> Count({"passed"}),
        failed |-> Count({"failed"}),
        skipped |-> Count({"skipped"}),
        errors |-> Cardinality({i \in 1..Len(scenarios) :
                                   status[i] \notin {"passed", "failed", "skipped"}}),
        total |-> Len(scenarios)]

\* Mutant: failed scenarios are looked at before scenarios with errors.
featureVerdictFailedFirst(c) ==
    IF c.failed > 0
    THEN [status |-> "failed", reason |-> <<" scenarios failed">>, counts |-> c]
    ELSE IF c.errors > 0
    THEN [status |-> "error", reason |-> <<" scenarios have errors">>, counts |-> c]
    ELSE IF c.skipped = c.total
    THEN [status |-> "skipped", reason |-> <<"All scenarios were skipped">>, counts |-> c]
    ELSE IF c.passed = c.total
    THEN [status |-> "passed", reason |-> <<"All scenarios passed">>, counts |-> c]
    ELSE [status |-> "mixed", reason |-> <<" passed, ">>, counts |-> c]

\* The status and reason of a feature from the counts of its scenarios.
featureVerdict(c) ==
    IF c.errors > 0
    THEN [status |-> "error",
          reason |-> NumToStr(c.errors) \o <<" scenarios have errors">>, counts |-> c]
    ELSE IF c.failed > 0
    THEN [status |-> "failed",
          reason |-> NumToStr(c.failed) \o <<" of ">> \o NumToStr(c.total)
                     \o <<" scenarios failed">>,
          counts |-> c]
    ELSE IF c.skipped = c.total
    THEN [status |-> "skipped", reason |-> <<"All scenarios were skipped">>, counts |-> c]
    ELSE IF c.passed = c.total
    THEN [status |-> "passed", reason |-> <<"All scenarios passed">>, counts |-> c]
    ELSE [status |-> "mixed",
          reason |-> NumToStr(c.passed) \o <<" passed, ">> \o NumToStr(c.failed)
                     \o <<" failed, ">> \o NumToStr(c.skipped) \o <<" skipped">>,
          counts |-> c]

NotBackground(el) == ~StrictEq(Get(el, "type"), Str(<<"background">>))

\* feature.elements.filter(el => el.type !== 'background') throws a TypeError
\* when elements is no array (it has no filter method) and when an element is
\* null or undefined (el.type is read on it); nothing catches it.
calculateFeatureStatus(self, feature) ==
    IF ~Truthy(feature) \/ ~Truthy(Get(feature, "elements"))
    THEN Returned([status |-> "unknown", reason |-> <<"Feature has no scenarios">>])
    ELSE IF ~IsArray(Get(feature, "elements"))
    THEN Thrown("TypeError")
    ELSE IF \E i \in 1..Len(Val(Get(feature, "elements"))) :
                Kind(Val(Get(feature, "elements"))[i]) \in {"null", "undefined"}
    THEN Thrown("TypeError")
    ELSE IF SelectSeq(Val(Get(feature, "elements")), NotBackground) = <<>>
    THEN Returned([status |-> "unknown", reason |-> <<"No executable scenarios found">>])
    ELSE Returned(featureVerdict(countScenarioStatuses(self,
                      SelectSeq(Val(Get(feature, "elements")), NotBackground))))

-----------------------------------------------------------------------------
(* CucumberJsonValidator *)
(* The instance fields the methods update are threaded through them as one *)
(* record v = [validationErrors, validationWarnings, processedEntries,     *)
(* skippedEntries]; a method that also returns a value gives               *)
(* [v |-> fields after the call, out |-> returned value].  The context and *)
(* timestamp fields of an error or warning entry are left out.             *)

DefaultMaxErrors == 100

\* constructor(options)
CucumberJsonValidator(options) ==
    [generatePlaceholders |-> ~StrictEq(Get(options, "generatePlaceholders"), Bool(FALSE)),
     maxErrors |-> Val(Or(Get(options, "maxErrors"), Num(DefaultMaxErrors)))]

\* Mutant: the errors of the call before are kept.
resetKeepErrors(v) ==
    [validationErrors |-> v.validationErrors, validationWarnings |-> <<>>,
     processedEntries |-> 0, skippedEntries |-> 0]

reset(v) ==
    [validationErrors |-> <<>>, validationWarnings |-> <<>>,
     processedEntries |-> 0, skippedEntries |-> 0]

\* Mutant: every error is collected.
addErrorUncapped(self, v, location, message) ==
    [v EXCEPT !.validationErrors =
        Append(@, [type |-> "error", location |-> location, message |-> message])]

addError(self, v, location, message) ==
    IF Len(v.validationErrors) >= self.maxErrors
    THEN v
    ELSE [v EXCEPT !.validationErrors =
             Append(@, [type |-> "error", location |-> location, message |-> message])]

addWarning(v, location, message) ==
    [v EXCEPT !.validationWarnings =
        Append(@, [type |-> "warning", location |-> location, message |-> message])]

\* typeof x === 'object' for a value that is not null.
TypeofObject(x) == Kind(x) \in {"object", "array"}

\* Mutant: a name that needs no repair is marked as well.
sanitizeTestNameMarked(self, v, name, fallback, type) ==
    IF ~Truthy(name) \/ Kind(name) # "string" \/ Trim(Val(name)) = <<>>
    THEN [v |-> addWarning(v, <<"Name Sanitization">>,
                    <<"Empty ", type, " name replaced with placeholder: ">>
                    \o fallback \o <<" (auto-generated)">>),
          out |-> Str(fallback \o <<" (auto-generated)">>)]
    ELSE [v |-> v, out |-> Str(Trim(Val(name)) \o <<" (checked)">>)]

sanitizeTestName(self, v, name, fallback, type) ==
    IF ~Truthy(name) \/ Kind(name) # "string" \/ Trim(Val(name)) = <<>>
    THEN IF self.generatePlaceholders
         THEN [v |-> addWarning(v, <<"Name Sanitization">>,
                         <<"Empty ", type, " name replaced with placeholder: ">>
                         \o fallback \o <<" (auto-generated)">>),
               out |-> Str(fallback \o <<" (auto-generated)">>)]
         ELSE [v |-> addError(self, v, <<"Name Sanitization">>,
                         <<type, " name is null or empty">>),
               out |-> Str(fallback)]
    ELSE [v |-> v, out |-> Str(Trim(Val(name)))]

\* toLowerCase on the letters of the model's names.
ToLowerCase(c) == CASE c = "A" -> "a" [] c = "B" -> "b" [] OTHER -> c

\* The chunks replace(/[^a-z0-9]/g, '-') leaves as they are: lower-case
\* letters and digits, and the literal 'scenario-' (whose '-' is replaced by
\* itself).
IdChunks == {"a", "b", "x", "scenario-"} \cup {Digits[i] : i \in 1..10}

\* baseName.toLowerCase().replace(/[^a-z0-9]/g, '-')
IdPart(baseName) ==
    [i \in 1..Len(baseName) |->
        IF ToLowerCase(baseName[i]) \in IdChunks THEN ToLowerCase(baseName[i]) ELSE "-"]

\* A truthy name that is no string has no toLowerCase method: TypeError.
generateId(name, featureIndex, scenarioIndex) ==
    IF Truthy(name) /\ Kind(name) # "string"
    THEN Thrown(<<"baseName.toLowerCase is not a function">>)
    ELSE Returned(Str(<<"feature-">> \o NumToStr(featureIndex) \o <<"-">>
                      \o IdPart(Val(Or(name, Str(<<"scenario-">> \o NumToStr(scenarioIndex)))))
                      \o <<"-">> \o NumToStr(scenarioIndex)))

DefaultResult == Obj([status |-> Str(<<"unknown">>), duration |-> Num(0)])

sanitizeHook(hook, type) ==
    IF ~Truthy(hook) \/ ~TypeofObject(hook)
    THEN Obj([result |-> DefaultResult,
              match |-> Obj([location |-> Str(<<"unknown ", type, " hook">>)])])
    ELSE Spread(hook, [result |-> Or(Get(hook, "result"), DefaultResult),
                       match |-> Or(Get(hook, "match"),
                                    Obj([location |-> Str(<<type, " hook">>)]))])

StepLocation(featureIndex, scenarioIndex, stepIndex) ==
    <<"Feature ">> \o NumToStr(featureIndex) \o <<", Scenario ">>
    \o NumToStr(scenarioIndex) \o <<", Step ">> \o NumToStr(stepIndex)

\* Mutant: a step without result and status is passed on as it is.
sanitizeStepNoDefault(self, v, step, featureIndex, scenarioIndex, stepIndex) ==
    IF ~Truthy(step) \/ ~TypeofObject(step)
    THEN [v |-> addError(self, v, StepLocation(featureIndex, scenarioIndex, stepIndex),
                         <<"Step must be an object">>),
          out |-> Null]
    ELSE LET Sanitized(n) ==
                 [v |-> n.v,
                  out |-> Spread(step, [name |-> n.out,
                                        keyword |-> Or(Get(step, "keyword"),
                                                       Str(<<"Given ">>))])]
         IN Sanitized(sanitizeTestName(self, v, Get(step, "name"),
                                       <<"Step ">> \o NumToStr(stepIndex), "step"))

sanitizeStep(self, v, step, featureIndex, scenarioIndex, stepIndex) ==
    IF ~Truthy(step) \/ ~TypeofObject(step)
    THEN [v |-> addError(self, v, StepLocation(featureIndex, scenarioIndex, stepIndex),
                         <<"Step must be an object">>),
          out |-> Null]
    ELSE LET \* n: what sanitizeTestName gave for step.name
             Named(n, sanitizedStep) ==
                 IF ~Truthy(Get(step, "result")) /\ ~Truthy(Get(step, "status"))
                 THEN [v |-> addWarning(n.v,
                                 StepLocation(featureIndex, scenarioIndex, stepIndex),
                                 <<"Step missing result/status, defaulting to unknown">>),
                       out |-> Spread(sanitizedStep, [result |-> DefaultResult])]
                 ELSE [v |-> n.v, out |-> sanitizedStep]
             Sanitized(n) ==
                 Named(n, Spread(step, [name |-> n.out,
                                        keyword |-> Or(Get(step, "keyword"),
                                                       Str(<<"Given ">>))]))
         IN Sanitized(sanitizeTestName(self, v, Get(step, "name"),
                                       <<"Step ">> \o NumToStr(stepIndex), "step"))

\* scenario.steps.map(sanitizeStep).filter(step => step !== null), from step i on.
RECURSIVE sanitizeSteps(_, _, _, _, _, _)
sanitizeSteps(self, v, steps, featureIndex, scenarioIndex, i) ==
    IF i > Len(steps)
    THEN [v |-> v, out |-> <<>>]
    ELSE LET \* r: what sanitizeStep gave for step i; rest: the steps after it
             Filtered(r, rest) ==
                 [v |-> rest.v,
                  out |-> (IF Kind(r.out) = "null" THEN <<>> ELSE <<r.out>>) \o rest.out]
             Mapped(r) ==
                 Filtered(r, sanitizeSteps(self, r.v, steps, featureIndex, scenarioIndex, i + 1))
         IN Mapped(sanitizeStep(self, v, steps[i], featureIndex, scenarioIndex, i - 1))

\* The hooks of one list, sanitized.
sanitizeHooks(hooks, type) == [i \in 1..Len(hooks) |-> sanitizeHook(hooks[i], type)]

ScenarioLocation(featureIndex, scenarioIndex) ==
    <<"Feature ">> \o NumToStr(featureIndex) \o <<", Scenario ">> \o NumToStr(scenarioIndex)

\* The fields sanitizeScenario sets after name, id and type: steps, before, after.
sanitizeScenarioLists(scenario, sanitizedSteps) ==
    [f \in {g \in {"steps", "before", "after"} :
               Truthy(Get(scenario, g)) /\ IsArray(Get(scenario, g))} |->
        CASE f = "steps" -> Arr(sanitizedSteps)
          [] f = "before" -> Arr(sanitizeHooks(Val(Get(scenario, "before")), "before"))
          [] f = "after" -> Arr(sanitizeHooks(Val(Get(scenario, "after")), "after"))]

\* Gives [v, threw, out]: generateId's TypeError leaves the method after the
\* name was sanitized (its warning or error is already recorded).
sanitizeScenario(self, v, scenario, featureIndex, scenarioIndex) ==
    IF ~Truthy(scenario) \/ ~TypeofObject(scenario)
    THEN [v |-> addError(self, v, ScenarioLocation(featureIndex, scenarioIndex),
                         <<"Scenario must be an object">>),
          threw |-> FALSE, out |-> Null]
    ELSE LET \* n: the sanitized name; id: scenario.id || generateId(...);
             \* st: the sanitized steps
             WithSteps(n, id, st) ==
                 [v |-> st.v, threw |-> FALSE,
                  out |-> Spread(
                      Spread(scenario,
                             [name |-> n.out, id |-> id.value,
                              type |-> Or(Get(scenario, "type"), Str(<<"scenario">>))]),
                      sanitizeScenarioLists(scenario, st.out))]
             WithId(n, id) ==
                 IF id.threw
                 THEN [v |-> n.v, threw |-> TRUE, error |-> id.error]
                 ELSE WithSteps(n, id,
                         IF Truthy(Get(scenario, "steps")) /\ IsArray(Get(scenario, "steps"))
                         THEN sanitizeSteps(self, n.v, Val(Get(scenario, "steps")),
                                            featureIndex, scenarioIndex, 1)
                         ELSE [v |-> n.v, out |-> <<>>])
             Named(n) ==
                 WithId(n, IF Truthy(Get(scenario, "id"))
                           THEN Returned(Get(scenario, "id"))
                           ELSE generateId(Get(scenario, "name"), featureIndex, scenarioIndex))
         IN Named(sanitizeTestName(self, v, Get(scenario, "name"),
                                   <<"Scenario ">> \o NumToStr(scenarioIndex), "scenario"))

\* elements.forEach of sanitizeFeature, from element i on: a sanitized
\* scenario is pushed, a null one counted as skipped, and an exception of
\* sanitizeScenario is recorded as an error.
RECURSIVE sanitizeElements(_, _, _, _, _)
sanitizeElements(self, v, elements, featureIndex, i) ==
    IF i > Len(elements)
    THEN [v |-> v, out |-> <<>>]
    ELSE LET \* r: what sanitizeScenario gave for element i; rest: the elements
             \* after it
             Pushed(r, rest) ==
                 [v |-> rest.v,
                  out |-> (IF r.threw \/ Kind(r.out) = "null" THEN <<>> ELSE <<r.out>>)
                          \o rest.out]
             Each(r) ==
                 Pushed(r, sanitizeElements(self,
                              IF r.threw
                              THEN addError(self, r.v,
                                            ScenarioLocation(featureIndex, i - 1), r.error)
                              ELSE IF Kind(r.out) = "null"
                              THEN [r.v EXCEPT !.skippedEntries = @ + 1]
                              ELSE r.v,
                              elements, featureIndex, i + 1))
         IN Each(sanitizeScenario(self, v, elements[i], featureIndex, i - 1))

sanitizeFeature(self, v, feature, featureIndex) ==
    IF ~Truthy(feature) \/ ~TypeofObject(feature)
    THEN [v |-> addError(self, v, <<"Feature ">> \o NumToStr(featureIndex),
                         <<"Feature must be an object">>),
          out |-> Null]
    ELSE LET \* n: the sanitized name; el: the sanitized elements
             WithElements(n, el) ==
                 [v |-> el.v,
                  out |-> Spread(feature, [name |-> n.out, elements |-> Arr(el.out)])]
             Scenarios(n, elements) ==
                 WithElements(n, IF IsArray(elements)
                                 THEN sanitizeElements(self, n.v, Val(elements),
                                                       featureIndex, 1)
                                 ELSE [v |-> n.v, out |-> <<>>])
             Named(n) ==
                 Scenarios(n, Or(Or(Get(feature, "elements"), Get(feature, "scenarios")),
                                 Arr(<<>>)))
         IN Named(sanitizeTestName(self, v, Get(feature, "name"),
                                   <<"Feature ">> \o NumToStr(featureIndex), "feature"))

\* feature.elements is read on every entry: a null or undefined entry throws.
countOriginalEntries(json) ==
    IF \E i \in 1..Len(json) : Kind(json[i]) \in {"null", "undefined"}
    THEN Thrown(<<"Cannot read properties of null (reading 'elements')">>)
    ELSE LET Elements(i) == Get(json[i], "elements")
             RECURSIVE Sum(_)
             Sum(i) == IF i = 0 THEN 0
                       ELSE Sum(i - 1) + 1
                            + (IF Truthy(Elements(i)) /\ IsArray(Elements(i))
                               THEN Len(Val(Elements(i))) ELSE 0)
         IN Returned(Sum(Len(json)))

\* json.forEach of validateReport, from feature i on; `skipped` is
\* result.skippedEntries.  sanitizeFeature throws nothing, so the catch of
\* this loop is not reached.
RECURSIVE sanitizeFeatures(_, _, _, _)
sanitizeFeatures(self, v, json, i) ==
    IF i > Len(json)
    THEN [v |-> v, out |-> <<>>, skipped |-> <<>>]
    ELSE LET \* r: what sanitizeFeature gave for feature i; rest: the features
             \* after it
             Pushed(r, rest) ==
                 [v |-> rest.v,
                  out |-> (IF Truthy(r.out) THEN <<r.out>> ELSE <<>>) \o rest.out,
                  skipped |-> (IF Truthy(r.out) THEN <<>>
                               ELSE <<[type |-> "feature", index |-> i - 1,
                                       reason |-> <<"Failed sanitization">>]>>)
                              \o rest.skipped]
             Each(r) ==
                 Pushed(r, sanitizeFeatures(self,
                              IF Truthy(r.out)
                              THEN [r.v EXCEPT !.processedEntries = @ + 1]
                              ELSE [r.v EXCEPT !.skippedEntries = @ + 1],
                              json, i + 1))
         IN Each(sanitizeFeature(self, v, json[i], i - 1))

\* Mutant: a report that is no array is refused without recording the error.
validateBasicStructureSilent(self, v, json) ==
    IF ~IsArray(json)
    THEN [v |-> v, out |-> FALSE]
    ELSE IF Len(Val(json)) = 0
    THEN [v |-> addWarning(v, <<"Root">>, <<"Empty features array">>), out |-> TRUE]
    ELSE [v |-> v, out |-> TRUE]

validateBasicStructure(self, v, json) ==
    IF ~IsArray(json)
    THEN [v |-> addError(self, v, <<"Root">>, <<"Cucumber JSON must be an array of features">>),
          out |-> FALSE]
    ELSE IF Len(Val(json)) = 0
    THEN [v |-> addWarning(v, <<"Root">>, <<"Empty features array">>), out |-> TRUE]
    ELSE [v |-> v, out |-> TRUE]

\* The result object as validateReport creates it.
NewResult ==
    [isValid |-> TRUE, errors |-> <<>>, warnings |-> <<>>, sanitizedData |-> Null,
     originalEntryCount |-> 0, processedEntryCount |-> 0, skippedEntries |-> <<>>]

\* v: the instance fields at the call.  Gives [v |-> the instance fields after
\* the call, result |-> the result].
validateReport(self, v, json) ==
    LET \* b: what validateBasicStructure gave; count: what countOriginalEntries
        \* gave; f: what the loop over the features gave
        Completed(count, f) ==
            [v |-> f.v,
             result |-> [isValid |-> f.v.validationErrors = <<>>,
                         errors |-> f.v.validationErrors,
                         warnings |-> f.v.validationWarnings,
                         sanitizedData |-> Arr(f.out),
                         originalEntryCount |-> count.value,
                         processedEntryCount |-> f.v.processedEntries,
                         skippedEntries |-> f.skipped]]
        Counted(b, count) ==
            IF count.threw
            THEN [v |-> b.v,
                  result |-> [NewResult EXCEPT
                                !.isValid = FALSE,
                                !.errors = <<[type |-> "critical",
                                              message |-> <<"Critical validation error: ">>
                                                          \o count.error]>>]]
            ELSE Completed(count, sanitizeFeatures(self, b.v, Val(json), 1))
        Structured(b) ==
            IF ~b.out
            THEN [v |-> b.v,
                  result |-> [NewResult EXCEPT !.isValid = FALSE,
                                               !.errors = b.v.validationErrors]]
            ELSE Counted(b, countOriginalEntries(Val(json)))
    IN Structured(validateBasicStructure(self, reset(v), json))

-----------------------------------------------------------------------------
(* DataIntegrityValidator *)
(* Count sets are objects of numbers.  The calls of the error handler only   *)
(* write its logs, which no result depends on, and are left out; so are      *)
(* timestamps and stack traces.                                              *)

DefaultTolerancePercentage == 5

\* constructor(options)
DataIntegrityValidator(options) ==
    [tolerancePercentage |->
        Val(Or(Get(options, "tolerancePercentage"), Num(DefaultTolerancePercentage)))]

Max(a, b) == IF a >= b THEN a ELSE b
Abs(a) == IF a >= 0 THEN a ELSE 0 - a

\* counts[field] || 0
CountOf(counts, field) == Val(Or(Get(counts, field), Num(0)))

\* step.result ? step.result.status : step.status
RawStepStatus(step) ==
    IF Truthy(Get(step, "result")) THEN Get(Get(step, "result"), "status")
    ELSE Get(step, "status")

\* steps.some(step => status of step === word): "yes", "no", or "throw" when
\* a null or undefined step is read before a step with that status is found.
SomeStep(steps, word) ==
    LET hit == {i \in 1..Len(steps) :
                   /\ Kind(steps[i]) \notin {"null", "undefined"}
                   /\ StrictEq(RawStepStatus(steps[i]), Str(<<word>>))}
        bad == {i \in 1..Len(steps) : Kind(steps[i]) \in {"null", "undefined"}}
    IN IF \E b \in bad : \A h \in hit : b < h THEN "throw"
       ELSE IF hit # {} THEN "yes" ELSE "no"

\* The status calculateSummaryFromRawData gives a scenario, or "throw".
RawScenarioStatus(scenario) ==
    IF Truthy(Get(scenario, "steps")) /\ IsArray(Get(scenario, "steps"))
    THEN CASE SomeStep(Val(Get(scenario, "steps")), "failed") = "throw" -> "throw"
           [] SomeStep(Val(Get(scenario, "steps")), "failed") = "yes" -> "failed"
           [] SomeStep(Val(Get(scenario, "steps")), "passed") = "throw" -> "throw"
           [] SomeStep(Val(Get(scenario, "steps")), "passed") = "yes" -> "passed"
           [] OTHER -> "skipped"
    ELSE "unknown"

\* feature.elements || feature.scenarios || []
RawElements(feature) ==
    Or(Or(Get(feature, "elements"), Get(feature, "scenarios")), Arr(<<>>))

\* The places <<i, j>> of the scenarios the loops of
\* calculateSummaryFromRawData count: the elements that are no background.
RawScenarios(jsonData) ==
    UNION {{<<i, j>> : j \in {k \in 1..Len(Val(RawElements(jsonData[i]))) :
                                ~StrictEq(Get(Val(RawElements(jsonData[i]))[k], "type"),
                                          Str(<<"background">>))}} :
           i \in 1..Len(jsonData)}

\* The loops throw a TypeError on a feature or element that is null or
\* undefined, on elements that are no array, and where the status of a
\* scenario cannot be read.
RawDataThrows(jsonData) ==
    \/ \E i \in 1..Len(jsonData) :
          \/ Kind(jsonData[i]) \in {"null", "undefined"}
          \/ ~IsArray(RawElements(jsonData[i]))
    \/ \E i \in 1..Len(jsonData) :
          \E j \in 1..Len(Val(RawElements(jsonData[i]))) :
              Kind(Val(RawElements(jsonData[i]))[j]) \in {"null", "undefined"}
    \/ \E p \in RawScenarios(jsonData) :
          RawScenarioStatus(Val(RawElements(jsonData[p[1]]))[p[2]]) = "throw"

StepCount(scenario) ==
    IF Truthy(Get(scenario, "steps")) /\ IsArray(Get(scenario, "steps"))
    THEN Len(Val(Get(scenario, "steps"))) ELSE 0

\* The steps of the scenarios at the places ps, summed up.
RECURSIVE RawStepSum(_, _)
RawStepSum(jsonData, ps) ==
    IF ps = {} THEN 0
    ELSE LET p == CHOOSE q \in ps : TRUE
         IN StepCount(Val(RawElements(jsonData[p[1]]))[p[2]])
            + RawStepSum(jsonData, ps \ {p})

calculateSummaryFromRawData(jsonData) ==
    IF ~IsArray(jsonData)
    THEN Returned(Obj([features |-> Num(0), scenarios |-> Num(0), steps |-> Num(0),
                       passed |-> Num(0), failed |-> Num(0), skipped |-> Num(0),
                       errors |-> Num(0)]))
    ELSE IF RawDataThrows(Val(jsonData))
    THEN Thrown(<<"TypeError">>)
    ELSE LET Scenario(p) == Val(RawElements(Val(jsonData)[p[1]]))[p[2]]
             Counted(ps, which) ==
                 Num(Cardinality({p \in ps : RawScenarioStatus(Scenario(p)) \in which}))
             Summary(ps) ==
                 Obj([features |-> Num(Len(Val(jsonData))),
                      scenarios |-> Num(Cardinality(ps)),
                      steps |-> Num(RawStepSum(Val(jsonData), ps)),
                      passed |-> Counted(ps, {"passed"}),
                      failed |-> Counted(ps, {"failed"}),
                      skipped |-> Counted(ps, {"skipped"}),
                      errors |-> Counted(ps, {"unknown"})])
         IN Returned(Summary(RawScenarios(Val(jsonData))))

extractCountsFromParsedData(parsedData) ==
    IF Truthy(parsedData) /\ Truthy(Get(parsedData, "_validation"))
    THEN Returned(Obj([f \in {"features", "scenarios", "steps", "passed", "failed",
                              "skipped", "errors"} |-> Or(Get(parsedData, f), Num(0))]))
    ELSE calculateSummaryFromRawData(parsedData)

\* Mutant: the tolerance has no lower limit of 1.
CountToleranceNoMinimum(self, value1, value2) ==
    (Max(value1, value2) * self.tolerancePercentage) \div 100

\* Math.max(1, Math.floor(Math.max(value1, value2) * tolerancePercentage / 100))
CountTolerance(self, value1, value2) ==
    Max(1, (Max(value1, value2) * self.tolerancePercentage) \div 100)

CountFields == <<"features", "scenarios", "steps", "passed", "failed", "skipped">>

compareCountSets(self, counts1, counts2, comparisonType) ==
    LET Differs(field) ==
            /\ CountOf(counts1, field) # CountOf(counts2, field)
            /\ Abs(CountOf(counts1, field) - CountOf(counts2, field))
                  > CountTolerance(self, CountOf(counts1, field), CountOf(counts2, field))
        Discrepancies(fields) ==
            [i \in 1..Len(fields) |->
                [field |-> fields[i],
                 value1 |-> CountOf(counts1, fields[i]),
                 value2 |-> CountOf(counts2, fields[i]),
                 difference |-> CountOf(counts2, fields[i]) - CountOf(counts1, fields[i]),
                 tolerance |-> CountTolerance(self, CountOf(counts1, fields[i]),
                                              CountOf(counts2, fields[i]))]]
        Compared(discrepancies) ==
            [comparisonType |-> comparisonType,
             isConsistent |-> discrepancies = <<>>,
             discrepancies |-> discrepancies,
             tolerance |-> self.tolerancePercentage]
    IN Compared(Discrepancies(SelectSeq(CountFields, Differs)))

\* Math.max(1, Math.floor(provided * tolerancePercentage / 100))
ProvidedTolerance(self, provided) ==
    Max(1, (provided * self.tolerancePercentage) \div 100)

HistoryLimit == 20

\* recordValidation; history is validationHistory.
recordValidation(history, validation) ==
    LET Kept(h) == IF Len(h) > HistoryLimit
                   THEN SubSeq(h, Len(h) - HistoryLimit + 1, Len(h)) ELSE h
    IN Kept(Append(history, [isValid |-> validation.isValid,
                             issueCount |-> Len(validation.issues),
                             discrepancyCount |-> Len(validation.discrepancies)]))

\* validation.summary of validateTestCounts
ProvidedSummary(summary) ==
    [totalTests |-> CountOf(summary, "scenarios"), passed |-> CountOf(summary, "passed"),
     failed |-> CountOf(summary, "failed"), skipped |-> CountOf(summary, "skipped"),
     errors |-> CountOf(summary, "errors")]

\* Mutant: only a sum above the total is a mismatch.
CountMismatchOnlyAbove(provided) ==
    IF provided.passed + provided.failed + provided.skipped + provided.errors
          > provided.totalTests
    THEN <<[type |-> "count_mismatch", field |-> "total_scenarios",
            expected |-> provided.totalTests,
            calculated |-> provided.passed + provided.failed + provided.skipped
                           + provided.errors,
            difference |-> provided.passed + provided.failed + provided.skipped
                           + provided.errors - provided.totalTests]>>
    ELSE <<>>

\* The discrepancy of the internal check of validateTestCounts, if any.
CountMismatch(provided) ==
    IF provided.passed + provided.failed + provided.skipped + provided.errors
          # provided.totalTests
    THEN <<[type |-> "count_mismatch", field |-> "total_scenarios",
            expected |-> provided.totalTests,
            calculated |-> provided.passed + provided.failed + provided.skipped
                           + provided.errors,
            difference |-> provided.passed + provided.failed + provided.skipped
                           + provided.errors - provided.totalTests]>>
    ELSE <<>>

\* The discrepancies of the comparison of the provided summary with the
\* calculated one.
CrossMismatches(self, provided, calculated) ==
    LET Provided(field) == IF field = "scenarios" THEN provided.totalTests
                           ELSE provided[field]
        Differs(field) ==
            /\ Provided(field) # CountOf(calculated, field)
            /\ Abs(Provided(field) - CountOf(calculated, field))
                  > ProvidedTolerance(self, Provided(field))
        Discrepancies(fields) ==
            [i \in 1..Len(fields) |->
                [type |-> "cross_validation_mismatch", field |-> fields[i],
                 provided |-> Provided(fields[i]),
                 calculated |-> CountOf(calculated, fields[i]),
                 difference |-> CountOf(calculated, fields[i]) - Provided(fields[i]),
                 tolerance |-> ProvidedTolerance(self, Provided(fields[i]))]]
    IN Discrepancies(SelectSeq(<<"scenarios", "passed", "failed", "skipped">>, Differs))

\* Gives [history |-> validationHistory after the call, out |-> what the call
\* returned or threw].  summary.scenarios is read before the try block.
validateTestCounts(self, history, summary, reportData) ==
    IF Kind(summary) \in {"null", "undefined"}
    THEN [history |-> history, out |-> Thrown(<<"TypeError">>)]
    ELSE LET Recorded(validation) ==
                 [history |-> recordValidation(history, validation),
                  out |-> Returned(validation)]
             Validated(provided, calculated, discrepancies) ==
                 Recorded([isValid |-> discrepancies = <<>>, issues |-> <<>>,
                           summary |-> provided, calculatedSummary |-> calculated,
                           discrepancies |-> discrepancies])
             Crossed(provided, calc) ==
                 IF calc.threw
                 THEN [history |-> history,
                       out |-> Returned(
                           [isValid |-> FALSE,
                            issues |-> <<[type |-> "validation_error",
                                          message |-> calc.error]>>,
                            summary |-> provided, calculatedSummary |-> Null,
                            discrepancies |-> CountMismatch(provided)])]
                 ELSE Validated(provided, calc.value,
                                CountMismatch(provided)
                                \o CrossMismatches(self, provided, calc.value))
             Checked(provided) ==
                 IF Truthy(reportData) /\ IsArray(reportData)
                 THEN Crossed(provided, calculateSummaryFromRawData(reportData))
                 ELSE Validated(provided, Null, CountMismatch(provided))
         IN Checked(ProvidedSummary(summary))

normalizeExpectedCounts(expectedCounts) ==
    Obj([f \in {"features", "scenarios", "steps", "passed", "failed", "skipped", "errors"} |->
            Or(Or(Get(expectedCounts, f),
                  Get(expectedCounts,
                      CASE f = "features" -> "totalFeatures"
                        [] f = "scenarios" -> "totalScenarios"
                        [] f = "steps" -> "totalSteps"
                        [] f = "passed" -> "totalPassed"
                        [] f = "failed" -> "totalFailed"
                        [] f = "skipped" -> "totalSkipped"
                        [] f = "errors" -> "totalErrors")),
               Num(0))])

SignificantDifference == 5

\* The recommendations for the discrepancies of one comparison.
ComparisonRecommendations(comparison) ==
    LET Recommended(d) ==
            \/ d.field = "scenarios" /\ Abs(d.difference) > SignificantDifference
            \/ d.field = "failed" /\ d.difference > 0
        Recommendations(ds) ==
            [i \in 1..Len(ds) |->
                [type |-> IF ds[i].field = "scenarios" THEN "critical" ELSE "warning",
                 field |-> ds[i].field]]
    IN Recommendations(SelectSeq(comparison.discrepancies, Recommended))

RECURSIVE generateValidationRecommendations(_)
generateValidationRecommendations(comparisons) ==
    IF comparisons = <<>> THEN <<>>
    ELSE ComparisonRecommendations(Head(comparisons))
         \o generateValidationRecommendations(Tail(comparisons))

\* Never throws: an exception of the calculations is recorded as an issue.
crossValidateResults(self, parsedData, originalJson, expectedCounts) ==
    LET Failed(error) ==
            [isValid |-> FALSE,
             issues |-> <<[type |-> "cross_validation_error", message |-> error]>>,
             comparisons |-> <<>>, recommendations |-> <<>>]
        Compared(comparisons) ==
            [isValid |-> \A i \in 1..Len(comparisons) : comparisons[i].isConsistent,
             issues |-> <<>>,
             comparisons |-> comparisons,
             recommendations |-> generateValidationRecommendations(comparisons)]
        Normalized(direct, parsed, expected) ==
            Compared(<<compareCountSets(self, direct, parsed, "direct_vs_parsed"),
                       compareCountSets(self, direct, expected, "direct_vs_expected"),
                       compareCountSets(self, parsed, expected, "parsed_vs_expected")>>)
        Parsed(direct, parsed) ==
            IF parsed.threw THEN Failed(parsed.error)
            ELSE IF Truthy(expectedCounts)
            THEN Normalized(direct, parsed.value, normalizeExpectedCounts(expectedCounts))
            ELSE Compared(<<compareCountSets(self, direct, parsed.value,
                                             "direct_vs_parsed")>>)
        Direct(direct) ==
            IF direct.threw THEN Failed(direct.error)
            ELSE Parsed(direct.value, extractCountsFromParsedData(parsedData))
    IN Direct(calculateSummaryFromRawData(originalJson))

MaxScenariosPerFeature == 1000
MaxSecondsPerScenario == 3600

\* a / b > limit, for numbers a and b that are not 0
QuotientAbove(a, b, limit) ==
    \/ b > 0 /\ a > limit * b
    \/ b < 0 /\ a < limit * b

\* Gives the inconsistencies as [type, field, severity]; field is "" where the
\* code sets none.
detectInconsistencies(data) ==
    IF ~Truthy(data) \/ ~TypeofObject(data)
    THEN <<[type |-> "invalid_data_structure", field |-> "", severity |-> "error"]>>
    ELSE LET Missing(field) == Kind(Get(data, field)) \in {"null", "undefined"}
             Negative(field) ==
                 Truthy(Get(data, field)) /\ Kind(Get(data, field)) = "number"
                 /\ Val(Get(data, field)) < 0
             Entries(fields, type) ==
                 [i \in 1..Len(fields) |->
                     [type |-> type, field |-> fields[i], severity |-> "error"]]
         IN Entries(SelectSeq(<<"features", "scenarios", "passed", "failed">>, Missing),
                    "missing_critical_field")
            \o Entries(SelectSeq(<<"features", "scenarios", "steps", "passed", "failed",
                                   "skipped", "duration">>, Negative),
                       "negative_value")
            \o (IF /\ Truthy(Get(data, "scenarios")) /\ Truthy(Get(data, "features"))
                   /\ QuotientAbove(Val(Get(data, "scenarios")), Val(Get(data, "features")),
                                    MaxScenariosPerFeature)
                THEN <<[type |-> "unlikely_ratio", field |-> "", severity |-> "warning"]>>
                ELSE <<>>)
            \o (IF /\ Truthy(Get(data, "duration")) /\ Truthy(Get(data, "scenarios"))
                   /\ QuotientAbove(Val(Get(data, "duration")), Val(Get(data, "scenarios")),
                                    MaxSecondsPerScenario)
                THEN <<[type |-> "unusual_duration", field |-> "", severity |-> "warning"]>>
                ELSE <<>>)

ManyWarnings == 5

\* summary: report.summary; crossValidation: report.validations.crossValidation
generateOverallRecommendations(summary, crossValidation) ==
    (IF summary.criticalIssues > 0 THEN <<[type |-> "critical"]>> ELSE <<>>)
    \o (IF summary.warnings > ManyWarnings THEN <<[type |-> "warning"]>> ELSE <<>>)
    \o (IF crossValidation # Null /\ ~crossValidation.isValid
        THEN <<[type |-> "info"]>> ELSE <<>>)

RecentValidations == 5

\* this.validationHistory.slice(-5)
LastValidations(history) ==
    IF Len(history) > RecentValidations
    THEN SubSeq(history, Len(history) - RecentValidations + 1, Len(history))
    ELSE history

\* Gives [history |-> validationHistory after the call, out |-> what the call
\* returned].  The issues of the count validation and of the cross-validation
\* carry no severity; only the inconsistencies do.
generateIntegrityReport(self, history, data, originalJson, expectedCounts) ==
    LET Severe(inconsistencies, severity) ==
            Len(SelectSeq(inconsistencies, LAMBDA x : x.severity = severity))
        Reported(count, cross, inconsistencies, summary) ==
            [history |-> count.history,
             out |-> Returned(
                 [overallStatus |-> IF summary.criticalIssues > 0 THEN "critical"
                                    ELSE IF summary.warnings > 0 THEN "warning"
                                    ELSE "healthy",
                  summary |-> [summary EXCEPT !.recommendations =
                                  Len(generateOverallRecommendations(summary, cross))],
                  validations |-> [countValidation |-> count.out.value,
                                   crossValidation |-> cross,
                                   inconsistencyDetection |-> inconsistencies],
                  recommendations |-> generateOverallRecommendations(summary, cross),
                  details |-> [validationHistory |-> LastValidations(count.history)]])]
        Detected(count, cross, inconsistencies) ==
            Reported(count, cross, inconsistencies,
                     [totalIssues |-> Len(count.out.value.issues)
                                      + (IF cross = Null THEN 0 ELSE Len(cross.issues))
                                      + Len(inconsistencies),
                      criticalIssues |-> Severe(inconsistencies, "error"),
                      warnings |-> Severe(inconsistencies, "warning"),
                      recommendations |-> 0])
        Counted(count) ==
            IF count.out.threw
            THEN [history |-> count.history,
                  out |-> Returned(
                      [overallStatus |-> "error",
                       summary |-> [totalIssues |-> 0, criticalIssues |-> 1,
                                    warnings |-> 0, recommendations |-> 0],
                       validations |-> [countValidation |-> Null, crossValidation |-> Null,
                                        inconsistencyDetection |-> Null,
                                        error |-> [message |-> count.out.error]],
                       recommendations |-> <<>>, details |-> Null])]
            ELSE Detected(count,
                          IF Truthy(originalJson)
                          THEN crossValidateResults(self, data, originalJson, expectedCounts)
                          ELSE Null,
                          detectInconsistencies(data))
    IN Counted(validateTestCounts(self, history, data, originalJson))

-----------------------------------------------------------------------------
(* DiagnosticTools *)
(* The instance holds a TestStatusCalculator and a DataIntegrityValidator    *)
(* constructed with their defaults.  An analysis is a record; its field      *)
(* threw tells that its try block ended in the catch, which sets             *)
(* analysis.error.  Report ids, timestamps, the data size and the processing *)
(* time are left out: calculateDataSize catches what JSON.stringify throws.  *)

\* An analysis whose loop ended in an exception.
Caught(a) == [a EXCEPT !.threw = TRUE]

\* !x.name || x.name.trim() === '' for a feature or scenario x: "yes", "no",
\* or "throw" where x is null or undefined or the name has no trim method.
NameMissingOrThrows(x) ==
    IF Kind(x) \in {"null", "undefined"} THEN "throw"
    ELSE IF ~Truthy(Get(x, "name")) THEN "yes"
    ELSE IF Kind(Get(x, "name")) # "string" THEN "throw"
    ELSE IF Trim(Val(Get(x, "name"))) = <<>> THEN "yes" ELSE "no"

\* analyzeValidation: the loop over the steps of a scenario, from step k on.
RECURSIVE ValidationOfSteps(_, _, _, _, _)
ValidationOfSteps(a, steps, featureIndex, scenarioIndex, k) ==
    IF a.threw \/ k > Len(steps) THEN a
    ELSE IF Kind(steps[k]) \in {"null", "undefined"} THEN Caught(a)
    ELSE ValidationOfSteps(
             IF ~Truthy(Get(steps[k], "result")) /\ ~Truthy(Get(steps[k], "status"))
             THEN [a EXCEPT !.contentIssues =
                      Append(@, [type |-> "missing_result",
                                 location |-> StepLocation(featureIndex, scenarioIndex,
                                                           k - 1),
                                 severity |-> "error"])]
             ELSE a,
             steps, featureIndex, scenarioIndex, k + 1)

\* analyzeValidation: the loop over the elements of a feature, from j on.
RECURSIVE ValidationOfElements(_, _, _, _)
ValidationOfElements(a, elements, featureIndex, j) ==
    IF a.threw \/ j > Len(elements) THEN a
    ELSE IF NameMissingOrThrows(elements[j]) = "throw" THEN Caught(a)
    ELSE LET Named(b) ==
                 IF Truthy(Get(elements[j], "steps")) /\ IsArray(Get(elements[j], "steps"))
                 THEN ValidationOfSteps(b, Val(Get(elements[j], "steps")),
                                        featureIndex, j - 1, 1)
                 ELSE b
         IN ValidationOfElements(
                Named(IF NameMissingOrThrows(elements[j]) = "yes"
                      THEN [a EXCEPT !.contentIssues =
                               Append(@, [type |-> "missing_name",
                                          location |-> ScenarioLocation(featureIndex,
                                                                        j - 1),
                                          severity |-> "warning"])]
                      ELSE a),
                elements, featureIndex, j + 1)

\* analyzeValidation: the loop over the features, from i on.
RECURSIVE ValidationOfFeatures(_, _, _)
ValidationOfFeatures(a, jsonData, i) ==
    IF a.threw \/ i > Len(jsonData) THEN a
    ELSE IF NameMissingOrThrows(jsonData[i]) = "throw" THEN Caught(a)
    ELSE LET Named(b) ==
                 IF Truthy(Get(jsonData[i], "elements"))
                    /\ IsArray(Get(jsonData[i], "elements"))
                 THEN ValidationOfElements(b, Val(Get(jsonData[i], "elements")), i - 1, 1)
                 ELSE b
         IN ValidationOfFeatures(
                Named(IF NameMissingOrThrows(jsonData[i]) = "yes"
                      THEN [a EXCEPT !.contentIssues =
                               Append(@, [type |-> "missing_name",
                                          location |-> <<"Feature ">> \o NumToStr(i - 1),
                                          severity |-> "warning"])]
                      ELSE a),
                jsonData, i + 1)

\* suggestions are counted, not spelled out.
analyzeValidation(jsonData) ==
    IF ~IsArray(jsonData)
    THEN [structureValid |-> FALSE, contentIssues |-> <<>>, suggestions |-> 1,
          threw |-> FALSE]
    ELSE LET Analyzed(a) ==
                 [a EXCEPT !.suggestions =
                     IF ~a.threw /\ a.contentIssues # <<>> THEN 1 ELSE 0]
         IN Analyzed(ValidationOfFeatures(
                [structureValid |-> TRUE, contentIssues |-> <<>>, suggestions |-> 0,
                 threw |-> FALSE],
                Val(jsonData), 1))

\* hooks.some(hook => hook.result && hook.result.status === 'failed') for the
\* hooks of a phase ("before", "after"), where they are an array: "yes", "no",
\* or "throw" when a null or undefined hook is read before a failed one.
SomeHookFailed(scenario, phase) ==
    IF ~(Truthy(Get(scenario, phase)) /\ IsArray(Get(scenario, phase))) THEN "no"
    ELSE LET Some(hooks) ==
                 LET hit == {i \in 1..Len(hooks) :
                                /\ Kind(hooks[i]) \notin {"null", "undefined"}
                                /\ Truthy(Get(hooks[i], "result"))
                                /\ StrictEq(Get(Get(hooks[i], "result"), "status"),
                                            Str(<<"failed">>))}
                     bad == {i \in 1..Len(hooks) :
                                Kind(hooks[i]) \in {"null", "undefined"}}
                 IN IF \E b \in bad : \A h \in hit : b < h THEN "throw"
                    ELSE IF hit # {} THEN "yes" ELSE "no"
         IN Some(Val(Get(scenario, phase)))

\* analyzeStatusCalculation: what the loop body does with one scenario.
StatusOfScenario(self, a, scenario, featureIndex, scenarioIndex) ==
    IF Kind(scenario) \in {"null", "undefined"} THEN Caught(a)
    ELSE IF StrictEq(Get(scenario, "type"), Str(<<"background">>)) THEN a
    ELSE LET Hooked(b, statusResult) ==
                 IF SomeHookFailed(scenario, "before") = "throw" THEN Caught(b)
                 ELSE IF SomeHookFailed(scenario, "after") = "throw"
                 THEN Caught([b EXCEPT !.setupFailures =
                                 @ + (IF SomeHookFailed(scenario, "before") = "yes"
                                      THEN 1 ELSE 0)])
                 ELSE [b EXCEPT
                          !.setupFailures =
                              @ + (IF SomeHookFailed(scenario, "before") = "yes"
                                   THEN 1 ELSE 0),
                          !.teardownFailures =
                              @ + (IF SomeHookFailed(scenario, "after") = "yes"
                                   THEN 1 ELSE 0),
                          !.issues =
                              IF statusResult.status = "unknown"
                              THEN Append(@, [type |-> "unknown_status",
                                              location |-> ScenarioLocation(featureIndex,
                                                                            scenarioIndex),
                                              reason |-> statusResult.reason])
                              ELSE @]
             Counted(statusResult) ==
                 Hooked([a EXCEPT !.totalScenarios = @ + 1,
                                  !.statusBreakdown[statusResult.status] = @ + 1],
                        statusResult)
         IN Counted(calculateScenarioStatus(self, scenario))

\* analyzeStatusCalculation: the loop over the elements of a feature, from j on.
RECURSIVE StatusOfElements(_, _, _, _, _)
StatusOfElements(self, a, elements, featureIndex, j) ==
    IF a.threw \/ j > Len(elements) THEN a
    ELSE StatusOfElements(self,
                          StatusOfScenario(self, a, elements[j], featureIndex, j - 1),
                          elements, featureIndex, j + 1)

\* analyzeStatusCalculation: the loop over the features, from i on.
RECURSIVE StatusOfFeatures(_, _, _, _)
StatusOfFeatures(self, a, reportData, i) ==
    IF a.threw \/ i > Len(reportData) THEN a
    ELSE IF Kind(reportData[i]) \in {"null", "undefined"} THEN Caught(a)
    ELSE StatusOfFeatures(self,
             IF Truthy(Get(reportData[i], "elements"))
                /\ IsArray(Get(reportData[i], "elements"))
             THEN StatusOfElements(self, a, Val(Get(reportData[i], "elements")), i - 1, 1)
             ELSE a,
             reportData, i + 1)

\* self: the options of this.statusCalculator.  The one issue pushed for
\* report data that is no array is a string and has no type.
analyzeStatusCalculation(self, reportData) ==
    LET Empty(issues) ==
            [totalScenarios |-> 0,
             statusBreakdown |-> [s \in {"passed", "failed", "skipped", "errors",
                                         "unknown"} |-> 0],
             setupFailures |-> 0, teardownFailures |-> 0, issues |-> issues,
             threw |-> FALSE]
    IN IF ~IsArray(reportData)
       THEN Empty(<<[type |-> "", location |-> <<>>,
                     reason |-> <<"Report data is not in expected array format">>]>>)
       ELSE StatusOfFeatures(self, Empty(<<>>), Val(reportData), 1)

\* The places <<i, j>> of the scenarios extractCounts counts.
CountedScenarios(reportData) ==
    UNION {IF Truthy(Get(reportData[i], "elements"))
              /\ IsArray(Get(reportData[i], "elements"))
           THEN {<<i, j>> : j \in {k \in 1..Len(Val(Get(reportData[i], "elements"))) :
                                     ~StrictEq(Get(Val(Get(reportData[i], "elements"))[k],
                                                   "type"),
                                               Str(<<"background">>))}}
           ELSE {} :
           i \in 1..Len(reportData)}

\* extractCounts has no try block: a feature or an element that is null or
\* undefined makes it throw.
ExtractCountsThrows(reportData) ==
    \E i \in 1..Len(reportData) :
        \/ Kind(reportData[i]) \in {"null", "undefined"}
        \/ /\ Truthy(Get(reportData[i], "elements"))
           /\ IsArray(Get(reportData[i], "elements"))
           /\ \E j \in 1..Len(Val(Get(reportData[i], "elements"))) :
                  Kind(Val(Get(reportData[i], "elements"))[j]) \in {"null", "undefined"}

\* The status extractCounts counts a scenario under: the one of
\* _calculatedStatus if there is one, the calculated one otherwise.
CountedStatus(self, scenario) ==
    IF Truthy(Get(scenario, "_calculatedStatus"))
    THEN Get(Get(scenario, "_calculatedStatus"), "status")
    ELSE Str(<<calculateScenarioStatus(self, scenario).status>>)

RECURSIVE CountedStepSum(_, _)
CountedStepSum(reportData, ps) ==
    IF ps = {} THEN 0
    ELSE LET p == CHOOSE q \in ps : TRUE
         IN StepCount(Val(Get(reportData[p[1]], "elements"))[p[2]])
            + CountedStepSum(reportData, ps \ {p})

\* self: the options of this.statusCalculator
extractCounts(self, reportData) ==
    IF ~IsArray(reportData)
    THEN Returned(Obj([f \in {"features", "scenarios", "steps", "passed", "failed",
                              "skipped", "errors"} |-> Num(0)]))
    ELSE IF ExtractCountsThrows(Val(reportData)) THEN Thrown(<<"TypeError">>)
    ELSE LET Named(status, word) ==
                 Cardinality({p \in DOMAIN status : StrictEq(status[p], Str(<<word>>))})
             Counts(ps, status) ==
                 Obj([features |-> Num(Len(Val(reportData))),
                      scenarios |-> Num(Cardinality(ps)),
                      steps |-> Num(CountedStepSum(Val(reportData), ps)),
                      passed |-> Num(Named(status, "passed")),
                      failed |-> Num(Named(status, "failed")),
                      skipped |-> Num(Named(status, "skipped")),
                      errors |-> Num(Cardinality(ps) - Named(status, "passed")
                                     - Named(status, "failed")
                                     - Named(status, "skipped"))])
             Statuses(ps) ==
                 Counts(ps, [p \in ps |->
                                CountedStatus(self, Val(Get(Val(reportData)[p[1]],
                                                            "elements"))[p[2]])])
         IN Returned(Statuses(CountedScenarios(Val(reportData))))

\* The priorities of the recommendations; the comparison is null on this path
\* or the call has thrown before.
generateDiagnosticRecommendations(report) ==
    (IF report.integrityCheck # Null /\ report.integrityCheck.overallStatus = "critical"
     THEN <<"critical">> ELSE <<>>)
    \o (IF report.statusAnalysis.setupFailures > 0 THEN <<"high">> ELSE <<>>)
    \o (IF report.comparison # Null /\ report.comparison.confidence = "low"
        THEN <<"medium">> ELSE <<>>)

\* Array.isArray(x) ? 'array' : typeof x
TypeOrArray(x) ==
    CASE Kind(x) = "array" -> "array"
      [] Kind(x) = "null" -> "object"
      [] OTHER -> Kind(x)

collectDebugInfo(reportData, originalJson) ==
    [reportDataType |-> TypeOrArray(reportData),
     reportDataLength |-> IF IsArray(reportData) THEN Len(Val(reportData)) ELSE 0,
     originalJsonType |-> TypeOrArray(originalJson),
     originalJsonLength |-> IF IsArray(originalJson) THEN Len(Val(originalJson)) ELSE 0,
     hasValidationInfo |-> Truthy(reportData) /\ Truthy(Get(reportData, "_validation")),
     hasIntegrityInfo |-> Truthy(reportData) /\ Truthy(Get(reportData, "_integrity"))]

\* report.validation is an analysis of analyzeValidation, which has no
\* summary: report.validation?.summary?.criticalIssues is undefined, and the
\* comparison with 0 is false.
determineOverallHealth(report) ==
    IF report.error # Null THEN "error"
    ELSE IF report.integrityCheck # Null
            /\ report.integrityCheck.overallStatus = "critical" THEN "critical"
    ELSE IF report.validation # Null /\ "summary" \in DOMAIN report.validation
            /\ report.validation.summary.criticalIssues > 0 THEN "poor"
    ELSE IF report.statusAnalysis # Null /\ Len(report.statusAnalysis.issues) > 0
    THEN "fair"
    ELSE "good"

\* Gives [history |-> validationHistory of this.integrityValidator after the
\* call, out |-> what the call returned].  tsc and div are the options of
\* this.statusCalculator and of this.integrityValidator.  The class has no
\* method compareWithExpected: the call made for expected counts throws a
\* TypeError, which the catch block records.  error is Null where the report
\* has no such field.
generateDiagnosticReport(tsc, div, history, reportData, originalJson, expectedCounts) ==
    LET Failed(report, h, error) ==
            [history |-> h,
             out |-> Returned([report EXCEPT !.error = [message |-> error],
                                             !.summary.overallHealth = "error"])]
        Finished(report, h) ==
            [history |-> h,
             out |-> Returned([report EXCEPT
                                  !.summary.overallHealth = determineOverallHealth(report)])]
        Recommended(report, h) ==
            Finished([report EXCEPT
                         !.recommendations = generateDiagnosticRecommendations(report),
                         !.debugInfo = collectDebugInfo(reportData, originalJson)], h)
        Compared(report, h) ==
            IF Truthy(expectedCounts)
            THEN Failed(report, h, <<"this.compareWithExpected is not a function">>)
            ELSE Recommended(report, h)
        Integrity(report, integrity) ==
            Compared([report EXCEPT !.integrityCheck = integrity.out.value],
                     integrity.history)
        Counted(report, counts) ==
            IF counts.threw THEN Failed(report, history, counts.error)
            ELSE Integrity(report,
                           generateIntegrityReport(div, history, counts.value,
                                                   originalJson, expectedCounts))
        Analyzed(report) ==
            IF IsArray(reportData) THEN Counted(report, extractCounts(tsc, reportData))
            ELSE Compared(report, history)
    IN Analyzed([summary |-> [overallHealth |-> "unknown"],
                 validation |-> IF Truthy(originalJson) THEN analyzeValidation(originalJson)
                                ELSE Null,
                 statusAnalysis |-> analyzeStatusCalculation(tsc, reportData),
                 integrityCheck |-> Null,
                 comparison |-> Null,
                 recommendations |-> <<>>,
                 debugInfo |-> Null,
                 error |-> Null])

\* Mutant: three of four matching metrics count as all.
ConfidenceOfThree(matching, total) ==
    IF matching * 100 >= 75 * total THEN "high" ELSE "low"

\* compareWithIdeOutput: the confidence for matching of total metrics, from
\* confidencePercentage = (matching / total) * 100.
ConfidenceOf(matching, total) ==
    IF matching * 100 = 100 * total THEN "high"
    ELSE IF matching * 100 >= 75 * total THEN "medium"
    ELSE "low"

LowPercentage == 5
MediumPercentage == 15

\* percentage = expected > 0 ? (|actual - expected| / expected) * 100 : 100
calculateDiscrepancySeverity(metric, expected, actual) ==
    IF expected > 0
    THEN IF Abs(actual - expected) = 0 THEN "none"
         ELSE IF Abs(actual - expected) * 100 <= LowPercentage * expected THEN "low"
         ELSE IF Abs(actual - expected) * 100 <= MediumPercentage * expected THEN "medium"
         ELSE "high"
    ELSE "high"

\* The possible causes found, one word for each; the recommendations go
\* with them one to one.
analyzeIdeDiscrepancies(discrepancies) ==
    LET Cause(d) ==
            (IF d.metric = "failed" /\ d.parsedValue > d.ideValue
             THEN <<"hooks">> ELSE <<>>)
            \o (IF d.metric = "skipped" /\ d.parsedValue < d.ideValue
                THEN <<"skipped">> ELSE <<>>)
        Causes(ds) ==
            IF ds = <<>> THEN <<>>
            ELSE Cause(ds[1])
                 \o (IF Len(ds) > 1 THEN Cause(ds[2]) ELSE <<>>)
                 \o (IF Len(ds) > 2 THEN Cause(ds[3]) ELSE <<>>)
                 \o (IF Len(ds) > 3 THEN Cause(ds[4]) ELSE <<>>)
    IN [possibleCauses |-> Causes(discrepancies)]

ComparedMetrics == <<"scenarios", "passed", "failed", "skipped">>

\* self: the options of this.statusCalculator.  The counts of the IDE output
\* are numbers.  threw tells that the try block ended in the catch, which
\* sets comparison.error and the confidence 'error': extractCounts throws,
\* or the IDE output is null or undefined, before any metric is compared.
compareWithIdeOutput(self, reportData, output) ==
    LET Failed == [matches |-> <<>>, discrepancies |-> <<>>, confidence |-> "error",
                   analysis |-> Null, threw |-> TRUE]
        Compared(matches, discrepancies) ==
            [matches |-> matches, discrepancies |-> discrepancies,
             confidence |-> ConfidenceOf(Cardinality(DOMAIN matches),
                                         Len(ComparedMetrics)),
             analysis |-> analyzeIdeDiscrepancies(discrepancies),
             threw |-> FALSE]
        Metrics(parsedCounts) ==
            LET Matches(metric) ==
                    StrictEq(Or(Get(output, metric), Num(0)),
                             Or(Get(parsedCounts, metric), Num(0)))
                Discrepancy(metric, ideValue, parsedValue) ==
                    [metric |-> metric, ideValue |-> ideValue,
                     parsedValue |-> parsedValue,
                     difference |-> parsedValue - ideValue,
                     severity |-> calculateDiscrepancySeverity(metric, ideValue,
                                                               parsedValue)]
                Differing(metrics) ==
                    [i \in 1..Len(metrics) |->
                        Discrepancy(metrics[i],
                                    Val(Or(Get(output, metrics[i]), Num(0))),
                                    Val(Or(Get(parsedCounts, metrics[i]), Num(0))))]
            IN Compared([metric \in {ComparedMetrics[i] : i \in
                                        {k \in 1..Len(ComparedMetrics) :
                                            Matches(ComparedMetrics[k])}} |->
                            [value |-> Val(Or(Get(output, metric), Num(0))),
                             status |-> "match"]],
                        Differing(SelectSeq(ComparedMetrics,
                                            LAMBDA metric : ~Matches(metric))))
        Counted(counts) ==
            IF counts.threw \/ Kind(output) \in {"null", "undefined"} THEN Failed
            ELSE Metrics(counts.value)
    IN Counted(extractCounts(self, reportData))

-----------------------------------------------------------------------------
(* DebugPanel *)
(* The text of the IDE output is a sequence of chunks: a digit, a blank, a   *)
(* comma, a word the patterns of parseIdeOutput name ("Tests run:",          *)
(* "failures"), or another character.  A pattern is the sequence of its      *)
(* elements: words (one of some words, compared without regard to case),     *)
(* blanks (\s* or \s+) and digits (\d+, a group).  Each repetition is        *)
(* followed by an element of another class, so the longest run is the one    *)
(* the regular expression takes.                                             *)

\* The words of a text as the flag i of the patterns reads them.
FoldCase(chunk) ==
    CASE chunk \in {"Tests run:", "TESTS RUN:"} -> "tests run:"
      [] chunk = "Failures:" -> "failures:"
      [] chunk = "Errors:" -> "errors:"
      [] chunk = "Skipped:" -> "skipped:"
      [] chunk = "Test" -> "test"
      [] OTHER -> chunk

IsDigit(chunk) == \E d \in 1..10 : Digits[d] = chunk

\* The index after the longest run of blanks, and of digits, that starts at i.
RECURSIVE SpacesEnd(_, _)
SpacesEnd(text, i) ==
    IF i <= Len(text) /\ text[i] \in Blank THEN SpacesEnd(text, i + 1) ELSE i

RECURSIVE DigitsEnd(_, _)
DigitsEnd(text, i) ==
    IF i <= Len(text) /\ IsDigit(text[i]) THEN DigitsEnd(text, i + 1) ELSE i

Word(words) == [kind |-> "word", words |-> words]
Spaces(min) == [kind |-> "spaces", min |-> min]
Number == [kind |-> "digits"]

\* /Tests run:\s*(\d+),\s*Failures:\s*(\d+),\s*Errors:\s*(\d+),\s*Skipped:\s*(\d+)/i
pattern1 ==
    <<Word({"tests run:"}), Spaces(0), Number, Word({","}), Spaces(0),
      Word({"failures:"}), Spaces(0), Number, Word({","}), Spaces(0),
      Word({"errors:"}), Spaces(0), Number, Word({","}), Spaces(0),
      Word({"skipped:"}), Spaces(0), Number>>

\* /(\d+)\s+tests?,\s*(\d+)\s+failures?,\s*(\d+)\s+skipped?/i
pattern2 ==
    <<Number, Spaces(1), Word({"tests", "test"}), Word({","}), Spaces(0),
      Number, Spaces(1), Word({"failures", "failure"}), Word({","}), Spaces(0),
      Number, Spaces(1), Word({"skipped", "skippe"})>>

\* The groups of the match of the elements of pattern from the k-th on, at
\* place i of text; matched is FALSE where there is none.
RECURSIVE MatchFrom(_, _, _, _, _)
MatchFrom(text, i, pattern, k, groups) ==
    IF k > Len(pattern) THEN [matched |-> TRUE, groups |-> groups]
    ELSE IF pattern[k].kind = "word"
    THEN IF i <= Len(text) /\ FoldCase(text[i]) \in pattern[k].words
         THEN MatchFrom(text, i + 1, pattern, k + 1, groups)
         ELSE [matched |-> FALSE, groups |-> <<>>]
    ELSE IF pattern[k].kind = "spaces"
    THEN IF SpacesEnd(text, i) - i >= pattern[k].min
         THEN MatchFrom(text, SpacesEnd(text, i), pattern, k + 1, groups)
         ELSE [matched |-> FALSE, groups |-> <<>>]
    ELSE IF DigitsEnd(text, i) > i
         THEN MatchFrom(text, DigitsEnd(text, i), pattern, k + 1,
                        Append(groups, SubSeq(text, i, DigitsEnd(text, i) - 1)))
         ELSE [matched |-> FALSE, groups |-> <<>>]

\* text.match(pattern): the match that starts first.
Match(text, pattern) ==
    LET First(starts) ==
            IF starts = {} THEN [matched |-> FALSE, groups |-> <<>>]
            ELSE MatchFrom(text, CHOOSE p \in starts : \A q \in starts : p <= q,
                           pattern, 1, <<>>)
    IN First({p \in 1..Len(text) : MatchFrom(text, p, pattern, 1, <<>>).matched})

\* text.match(/\d+/g), from place i on: the runs of digits.
RECURSIVE NumbersFrom(_, _)
NumbersFrom(text, i) ==
    IF i > Len(text) THEN <<>>
    ELSE IF IsDigit(text[i])
    THEN <<SubSeq(text, i, DigitsEnd(text, i) - 1)>> \o NumbersFrom(text, DigitsEnd(text, i))
    ELSE NumbersFrom(text, i + 1)

\* parseInt of a run of digits
RECURSIVE ParseInt(_)
ParseInt(digits) ==
    IF digits = <<>> THEN 0
    ELSE 10 * ParseInt(SubSeq(digits, 1, Len(digits) - 1))
         + (CHOOSE d \in 0..9 : Digits[d + 1] = digits[Len(digits)])

\* Mutant: the errors are not taken off the passed count.
IdeCountsErrorsPassed(scenarios, failed, errors, skipped) ==
    Obj([scenarios |-> Num(ParseInt(scenarios)), failed |-> Num(ParseInt(failed)),
         errors |-> Num(ParseInt(errors)), skipped |-> Num(ParseInt(skipped)),
         passed |-> Num(ParseInt(scenarios) - ParseInt(failed) - ParseInt(skipped))])

\* The object parseIdeOutput makes of the runs of digits it read; errors is
\* <<>> where the text has none, and the count is 0.
IdeCounts(scenarios, failed, errors, skipped) ==
    Obj([scenarios |-> Num(ParseInt(scenarios)), failed |-> Num(ParseInt(failed)),
         errors |-> Num(ParseInt(errors)), skipped |-> Num(ParseInt(skipped)),
         passed |-> Num(ParseInt(scenarios) - ParseInt(failed) - ParseInt(errors)
                        - ParseInt(skipped))])

\* Gives this.ideOutput after the call on the text this.ideOutputText; output
\* is this.ideOutput before it, which stays where no pattern matches and the
\* text has fewer than three numbers.
\* No statement of the try block throws on a string.
parseIdeOutput(text, output) ==
    IF Trim(text) = <<>> THEN Null
    ELSE LET Numbers(n) ==
                 IF Len(n) >= 3 THEN IdeCounts(n[1], n[2], <<>>, n[3]) ELSE output
             Second(m) ==
                 IF m.matched
                 THEN IdeCounts(m.groups[1], m.groups[2], <<>>, m.groups[3])
                 ELSE Numbers(NumbersFrom(text, 1))
             First(m) ==
                 IF m.matched
                 THEN IdeCounts(m.groups[1], m.groups[2], m.groups[3], m.groups[4])
                 ELSE Second(Match(text, pattern2))
         IN First(Match(text, pattern1))

-----------------------------------------------------------------------------
(* FailedScenarioDisplayHandler, ExecutionErrorFeatureHandler                *)
(* A Map is a function on its keys.  An id is a sequence of chunks: ";",    *)
(* "-", "_", and words; an error message is a sequence of chunks, among     *)
(* them the texts getExecutionErrorGuidance looks for.                       *)

\* map.set(key, value)
MapSet(map, key, value) ==
    [k \in DOMAIN map \cup {key} |-> IF k = key THEN value ELSE map[k]]

\* The chunks /[^a-zA-Z0-9]/ does not match.
Alphanumeric == {"unknown", "login", "a", "b"} \cup {Digits[i] : i \in 1..10}

\* x.length of an array, 0 where scenario.steps is missing.
StepsLength(scenario) ==
    IF Truthy(Get(scenario, "steps")) THEN Len(Val(Get(scenario, "steps"))) ELSE 0

\* getScenarioKey: the id, or 'scenario_' and the JSON text of name, line and
\* step count with '_' for each character that is no letter and no digit.
getScenarioKey(scenario) ==
    IF Truthy(Get(scenario, "id")) THEN Val(Get(scenario, "id"))
    ELSE LET Underscored(s) ==
                 [i \in 1..Len(s) |-> IF s[i] \in Alphanumeric THEN s[i] ELSE "_"]
         IN <<"scenario_", "__name___">>
            \o Underscored(Val(Or(Get(scenario, "name"), Str(<<>>))))
            \o <<"___line__">> \o NumToStr(Val(Or(Get(scenario, "line"), Num(0))))
            \o <<"__stepCount__">> \o NumToStr(StepsLength(scenario)) \o <<"_">>

\* idParts[idParts.length - 1] of id.split(';')
RECURSIVE LastPart(_)
LastPart(id) ==
    IF id = <<>> \/ id[Len(id)] = ";" THEN <<>>
    ELSE Append(LastPart(SubSeq(id, 1, Len(id) - 1)), id[Len(id)])

\* replace(/[-_]/g, ' ').replace(/\b\w/g, l => l.toUpperCase())
Readable(part) ==
    [i \in 1..Len(part) |->
        CASE part[i] \in {"-", "_"} -> " "
          [] part[i] = "login" -> "Login"
          [] part[i] = "unknown" -> "Unknown"
          [] part[i] = "a" /\ (i = 1 \/ part[i - 1] \notin Alphanumeric) -> "A"
          [] part[i] = "b" /\ (i = 1 \/ part[i - 1] \notin Alphanumeric) -> "B"
          [] OTHER -> part[i]]

\* The name generatePlaceholderName makes where the cache has none.
PlaceholderName(scenario) ==
    LET Named(lastPart) ==
            Truthy(Get(scenario, "id")) /\ lastPart # <<>> /\ lastPart # <<"unknown">>
        FromSteps ==
            IF StepsLength(scenario) > 0
            THEN <<"Scenario with ">> \o NumToStr(StepsLength(scenario))
                 \o (IF StepsLength(scenario) > 1 THEN <<" steps">> ELSE <<" step">>)
            ELSE <<"Unnamed Scenario">>
        FromId(lastPart) ==
            IF Named(lastPart) THEN Readable(lastPart) \o <<" (Unnamed)">> ELSE FromSteps
    IN FromId(IF Truthy(Get(scenario, "id")) THEN LastPart(Val(Get(scenario, "id")))
              ELSE <<>>)

\* names: this.placeholderNames; gives the Map after the call and the name
\* returned.  The scenario is an object whose id, if any, is a string.
generatePlaceholderName(names, scenario) ==
    IF getScenarioKey(scenario) \in DOMAIN names
    THEN [names |-> names, out |-> Returned(Str(names[getScenarioKey(scenario)]))]
    ELSE [names |-> MapSet(names, getScenarioKey(scenario), PlaceholderName(scenario)),
          out |-> Returned(Str(PlaceholderName(scenario)))]

\* getFeatureKey, for a feature with a uri or an id.
getFeatureKey(feature) == Val(Or(Get(feature, "uri"), Get(feature, "id")))

\* step.result && step.result.status === 'failed'
StepFailed(step) ==
    /\ Truthy(Get(step, "result"))
    /\ StrictEq(Get(Get(step, "result"), "status"), Str(<<"failed">>))

\* The guidance by the error message of the first failed step of the first
\* scenario with a failed step: its issue, priority and category.
Guidance(feature) ==
    LET Default == [issue |-> "Test execution framework error", priority |-> "high",
                    category |-> "framework"]
        ByMessage(m) ==
            IF ~Truthy(m) THEN Default
            ELSE IF \E i \in 1..Len(Val(m)) :
                        Val(m)[i] = "Test name must not be null or empty"
            THEN [issue |-> "Empty test names detected", priority |-> "critical",
                  category |-> "configuration"]
            ELSE IF \E i \in 1..Len(Val(m)) : Val(m)[i] = "IllegalArgumentException"
            THEN [issue |-> "Invalid test configuration detected", priority |-> "high",
                  category |-> "configuration"]
            ELSE IF \E i \in 1..Len(Val(m)) : Val(m)[i] = "ClassNotFoundException"
            THEN [issue |-> "Missing test dependencies or classes", priority |-> "high",
                  category |-> "dependencies"]
            ELSE IF \E i \in 1..Len(Val(m)) : Val(m)[i] = "NoSuchMethodException"
            THEN [issue |-> "Missing or incompatible step definitions",
                  priority |-> "high", category |-> "step-definitions"]
            ELSE Default
        FirstFailed(steps) ==
            steps[CHOOSE i \in 1..Len(steps) :
                     StepFailed(steps[i]) /\ \A j \in 1..(i - 1) : ~StepFailed(steps[j])]
        HasFailed(s) ==
            /\ Truthy(Get(s, "steps"))
            /\ \E i \in 1..Len(Val(Get(s, "steps"))) : StepFailed(Val(Get(s, "steps"))[i])
        OfScenarios(scenarios) ==
            IF \E i \in 1..Len(scenarios) : HasFailed(scenarios[i])
            THEN ByMessage(Get(Get(FirstFailed(Val(Get(
                     scenarios[CHOOSE i \in 1..Len(scenarios) :
                                  HasFailed(scenarios[i])
                                  /\ \A j \in 1..(i - 1) : ~HasFailed(scenarios[j])],
                     "steps"))), "result"), "error_message"))
            ELSE Default
    IN OfScenarios(Val(Or(Get(feature, "elements"), Arr(<<>>))))

\* s.steps of a null scenario, step.result of a null step
GuidanceThrows(feature) ==
    LET Scenarios == Val(Or(Get(feature, "elements"), Arr(<<>>)))
        StepsThrow(s) ==
            /\ Truthy(Get(s, "steps"))
            /\ \E i \in 1..Len(Val(Get(s, "steps"))) :
                  /\ Kind(Val(Get(s, "steps"))[i]) \in {"null", "undefined"}
                  /\ \A j \in 1..(i - 1) : ~StepFailed(Val(Get(s, "steps"))[j])
    IN \E i \in 1..Len(Scenarios) :
          \/ Kind(Scenarios[i]) \in {"null", "undefined"}
          \/ StepsThrow(Scenarios[i])

\* cache: this.errorGuidanceCache; gives the Map after the call and the
\* guidance returned.
getExecutionErrorGuidance(cache, feature) ==
    IF getFeatureKey(feature) \in DOMAIN cache
    THEN [cache |-> cache, out |-> Returned(cache[getFeatureKey(feature)])]
    ELSE IF GuidanceThrows(feature)
    THEN [cache |-> cache, out |-> Thrown("TypeError")]
    ELSE [cache |-> MapSet(cache, getFeatureKey(feature), Guidance(feature)),
          out |-> Returned(Guidance(feature))]

\* uri.includes(pattern): the chunks of the pattern in a row
Includes(uri, pattern) ==
    \E i \in 1..(Len(uri) - Len(pattern) + 1) :
        SubSeq(uri, i, i + Len(pattern) - 1) = pattern

executionErrorPatterns ==
    << <<"classpath:io/cucumber/core/", "failure.feature">>,
       <<"failure.feature">>,
       <<"execution-error">> >>

isExecutionErrorFeature(feature) ==
    /\ Truthy(feature)
    /\ Truthy(Get(feature, "uri"))
    /\ \E i \in 1..Len(executionErrorPatterns) :
          Includes(Val(Get(feature, "uri")), executionErrorPatterns[i])

-----------------------------------------------------------------------------
(* Inputs of the calculator *)

\* All sequences over S of length at most n.
SeqsUpTo(S, n) == UNION {[1..m -> S] : m \in 0..n}

\* An object literal: the fields of r, without those marked Absent.
Absent == [absent |-> TRUE]
MkObj(r) == Obj([f \in {g \in DOMAIN r : Kind(r[g]) # "absent"} |-> r[f]])

Result(status) == Obj([status |-> Str(<<status>>)])

\* Hooks of a report: passed, failed with a message, and failed in the flat
\* form (status on the hook itself, no result).
HookValues ==
    { Obj([result |-> Result("passed")]),
      Obj([result |-> Obj([status |-> Str(<<"failed">>),
                           error_message |-> Str(<<" ", "d", "b", " ">>)])]),
      Obj([status |-> Str(<<"failed">>)]) }

\* Steps of a report, by result status.
StepValues ==
    { Obj([result |-> Result("passed")]),
      Obj([result |-> Obj([status |-> Str(<<"failed">>),
                           error_message |-> Str(<<"b", "o", "o", "m">>)])]),
      Obj([result |-> Result("skipped")]),
      Obj([result |-> Result("undefined")]) }

HookLists == {Arr(h) : h \in SeqsUpTo(HookValues, MaxHooks)}
StepLists == {Arr(st) : st \in SeqsUpTo(StepValues, MaxSteps)}

HookCount(h) == IF Kind(h) = "array" THEN Len(Val(h)) ELSE 0

ScenarioObjects ==
    { MkObj([before |-> ba[1], steps |-> st, after |-> ba[2]]) :
        ba \in {p \in (HookLists \cup {Absent}) \X (HookLists \cup {Absent}) :
                   HookCount(p[1]) + HookCount(p[2]) <= MaxHooks},
        st \in StepLists \cup {Absent} }

\* Arguments that are no object at all.
NonObjects == {Null, Undefined, Num(0), Num(7), Str(<<>>), Str(<<"a", "b">>)}

\* Elements of a feature: scenarios that resolve to passed, failed, skipped
\* and unknown, a background, a scenario whose setup failed, and null.
ElementValues ==
    { Obj([type |-> Str(<<"scenario">>), steps |-> Arr(<<Obj([result |-> Result("passed")])>>)]),
      Obj([type |-> Str(<<"scenario">>), steps |-> Arr(<<Obj([result |-> Result("failed")])>>)]),
      Obj([type |-> Str(<<"scenario">>), steps |-> Arr(<<Obj([result |-> Result("skipped")])>>)]),
      Obj([type |-> Str(<<"scenario">>), steps |-> Arr(<<Obj([result |-> Result("undefined")])>>)]),
      Obj([type |-> Str(<<"background">>), steps |-> Arr(<<Obj([result |-> Result("passed")])>>)]),
      Null }

FeatureObjects ==
    {Obj([elements |-> Arr(e)]) : e \in SeqsUpTo(ElementValues, MaxElements)}
    \cup {EmptyObj, Obj([elements |-> Num(3)]), Obj([elements |-> EmptyObj])}

TscOptionInputs ==
    { EmptyObj,
      Obj([treatSetupFailuresAsFailed |-> Bool(FALSE)]),
      Obj([treatTeardownFailuresAsFailed |-> Bool(FALSE)]) }

TscInputs == ScenarioObjects \cup NonObjects \cup FeatureObjects

-----------------------------------------------------------------------------
(* The calculator as a state machine: an instance is constructed with some  *)
(* options, and its methods are called on a value.                          *)

NoCall == [op |-> "none"]

CalculateScenarioStatus ==
    /\ tscRet' = [op |-> "calculateScenarioStatus",
                  out |-> Returned(calculateScenarioStatus(tscOptions, tscArg))]
    /\ UNCHANGED <<tscOptions, tscArg>>
    /\ UNCHANGED <<cjvVars, divVars, dtVars, panelVars, cacheVars>>

CalculateFeatureStatus ==
    /\ tscRet' = [op |-> "calculateFeatureStatus",
                  out |-> calculateFeatureStatus(tscOptions, tscArg)]
    /\ UNCHANGED <<tscOptions, tscArg>>
    /\ UNCHANGED <<cjvVars, divVars, dtVars, panelVars, cacheVars>>

\* A calculator constructed with some options and a value to hand to it; the
\* validator is constructed with its defaults and left alone.
StatusInit ==
    /\ tscOptions \in {TestStatusCalculator(o) : o \in TscOptionInputs}
    /\ tscArg \in TscInputs
    /\ tscRet = NoCall
    /\ cjvOptions = CucumberJsonValidator(EmptyObj)
    /\ validationErrors = <<>>
    /\ validationWarnings = <<>>
    /\ processedEntries = 0
    /\ skippedEntries = 0
    /\ cjvArg = Undefined
    /\ cjvRet = NoCall
    /\ divOptions = DataIntegrityValidator(EmptyObj)
    /\ validationHistory = <<>>
    /\ divArg = Undefined
    /\ divRet = NoCall
    /\ dtArg = Undefined
    /\ dtRet = NoCall
    /\ ideOutputText = <<>>
    /\ ideOutput = Null
    /\ comparisonResults = Null
    /\ diagnosticResults = Null
    /\ debugInfo = Null
    /\ placeholderNames = <<>>
    /\ errorGuidanceCache = <<>>
    /\ dqmRet = NoCall

StatusNext == CalculateScenarioStatus \/ CalculateFeatureStatus

StatusSpec == StatusInit /\ [][StatusNext]_vars

-----------------------------------------------------------------------------
(* Claims about the calculator *)

\* The status a report records on a hook or step: that of its result when it
\* has one, its own status field otherwise.
EntryStatus(x) ==
    IF Truthy(Get(x, "result")) THEN Get(Get(x, "result"), "status") ELSE Get(x, "status")

AnyEntry(list, word) ==
    /\ IsArray(list)
    /\ \E i \in 1..Len(Val(list)) : StrictEq(EntryStatus(Val(list)[i]), Str(<<word>>))

AllEntries(list, word) ==
    /\ IsArray(list)
    /\ \A i \in 1..Len(Val(list)) : StrictEq(EntryStatus(Val(list)[i]), Str(<<word>>))

NoFailedHook(scenario) ==
    ~AnyEntry(Get(scenario, "before"), "failed") /\ ~AnyEntry(Get(scenario, "after"), "failed")

DefaultOptions == tscOptions = TestStatusCalculator(EmptyObj)

\* calculateScenarioStatus was called on a scenario object.
ScenarioCall == tscRet.op = "calculateScenarioStatus" /\ Kind(tscArg) = "object"

\* calculateFeatureStatus was called and returned counts.
FeatureCounts ==
    /\ tscRet.op = "calculateFeatureStatus"
    /\ ~tscRet.out.threw
    /\ "counts" \in DOMAIN tscRet.out.value

\* C1: with the default options, a scenario with a failed before hook is
\* failed with a reason that starts "Setup failed: ", and otherwise a scenario
\* with a failed after hook is failed with a reason that starts
\* "Teardown failed: ", whatever its steps are.
C1_HookFailurePrecedence ==
    (ScenarioCall /\ DefaultOptions) =>
        LET r == tscRet.out.value IN
        /\ AnyEntry(Get(tscArg, "before"), "failed") =>
              r.status = "failed" /\ Head(r.reason) = "Setup failed: "
        /\ (~AnyEntry(Get(tscArg, "before"), "failed")
                /\ AnyEntry(Get(tscArg, "after"), "failed")) =>
              r.status = "failed" /\ Head(r.reason) = "Teardown failed: "

\* C1 witness: a failed before hook after a passed one, every step passed,
\* and the scenario is reported failed.
C1_Witness ==
    /\ ScenarioCall /\ DefaultOptions
    /\ AnyEntry(Get(tscArg, "before"), "failed")
    /\ AnyEntry(Get(tscArg, "before"), "passed")
    /\ AllEntries(Get(tscArg, "steps"), "passed")
    /\ Len(Val(Get(tscArg, "steps"))) = MaxSteps
    /\ tscRet.out.value.status = "failed"

\* C2: without failed hook or failed step, a scenario with a passed step and
\* a skipped step is failed.
C2_MixedIsFailed ==
    (/\ ScenarioCall
     /\ NoFailedHook(tscArg)
     /\ ~AnyEntry(Get(tscArg, "steps"), "failed")
     /\ AnyEntry(Get(tscArg, "steps"), "passed")
     /\ AnyEntry(Get(tscArg, "steps"), "skipped"))
    => tscRet.out.value.status = "failed"

\* C2 witness: the steps [passed, skipped] without hooks, reported failed.
C2_Witness ==
    /\ ScenarioCall
    /\ Val(tscArg) = [steps |-> Arr(<<Obj([result |-> Result("passed")]),
                                      Obj([result |-> Result("skipped")])>>)]
    /\ tscRet.out.value.status = "failed"
    /\ tscRet.out.value.details.executionStatus = "mixed"

\* C3 (as claimed): without failed hook or failed step, the scenario is
\* passed exactly when it has steps and all of them are passed, and skipped
\* when all its steps are skipped or it has none.
C3_PassedIffAllPassed ==
    (ScenarioCall /\ NoFailedHook(tscArg) /\ ~AnyEntry(Get(tscArg, "steps"), "failed")) =>
        LET steps == Get(tscArg, "steps")
            status == tscRet.out.value.status
        IN /\ status = "passed" <=>
                 (AllEntries(steps, "passed") /\ Len(Val(steps)) > 0)
           /\ (~IsArray(steps) \/ AllEntries(steps, "skipped")) => status = "skipped"

ScenarioStatuses ==
    LET elements == Val(Get(tscArg, "elements")) IN
    {calculateScenarioStatus(tscOptions, elements[i]).status :
        i \in {j \in 1..Len(elements) :
                  ~StrictEq(Get(elements[j], "type"), Str(<<"background">>))}}

\* C5: the status of a feature is error if a scenario resolves to unknown or
\* error, else failed if one is failed, else skipped if all are skipped, else
\* passed if all are passed, else mixed.
C5_FeatureStatusOrder ==
    FeatureCounts =>
        tscRet.out.value.status =
            IF ScenarioStatuses \cap {"unknown", "error"} # {} THEN "error"
            ELSE IF "failed" \in ScenarioStatuses THEN "failed"
            ELSE IF ScenarioStatuses = {"skipped"} THEN "skipped"
            ELSE IF ScenarioStatuses = {"passed"} THEN "passed"
            ELSE "mixed"

\* C5 witness: a feature reported mixed, whose scenarios are passed and skipped.
C5_Witness ==
    /\ FeatureCounts
    /\ tscRet.out.value.status = "mixed"
    /\ ScenarioStatuses = {"passed", "skipped"}

\* C6 (as claimed): calculateScenarioStatus does not throw, and on an
\* argument that is no object it returns status error with a reason.
C6_MalformedScenarioIsError ==
    tscRet.op = "calculateScenarioStatus" =>
        /\ ~tscRet.out.threw
        /\ Kind(tscArg) \in {"null", "undefined", "number", "string"} =>
              /\ tscRet.out.value.status = "error"
              /\ tscRet.out.value.reason # <<>>

\* The places of the elements of the feature at hand that are null or no
\* object, where its elements are an array.
MalformedElements ==
    IF IsArray(Get(tscArg, "elements"))
    THEN {i \in 1..Len(Val(Get(tscArg, "elements"))) :
             Kind(Val(Get(tscArg, "elements"))[i]) # "object"}
    ELSE {}

\* C30: calculateFeatureStatus does not throw; for a feature with a malformed
\* element it returns a result with counts, in which each malformed element
\* is counted under errors and every element that is no background is counted.
C30_MalformedElementCounted ==
    tscRet.op = "calculateFeatureStatus" =>
        /\ ~tscRet.out.threw
        /\ MalformedElements # {} =>
              /\ "counts" \in DOMAIN tscRet.out.value
              /\ tscRet.out.value.counts.errors >= Cardinality(MalformedElements)
              /\ tscRet.out.value.counts.total
                    = Len(SelectSeq(Val(Get(tscArg, "elements")), NotBackground))


-----------------------------------------------------------------------------
(* Inputs of the validator *)

\* The name field of a feature or scenario: missing, empty, blank, a name to
\* trim, and a number.
NameValues == {Absent, Str(<<>>), Str(<<" ">>), Str(<<" ", "A", "b">>), Num(5)}

\* Steps of a report: null, a number, a step with a result, a step in the
\* flat form (status on the step itself), a step with neither, and {}.
ReportSteps ==
    { Null, Num(1),
      Obj([name |-> Str(<<"a">>), result |-> Result("passed")]),
      Obj([name |-> Str(<<"a">>), status |-> Str(<<"passed">>)]),
      Obj([name |-> Str(<<"a">>)]),
      EmptyObj }

PassedStep == Obj([name |-> Str(<<"a">>), result |-> Result("passed")])

\* Scenarios of a report: null, a number, scenarios by name and id, and one
\* with hooks.
ReportScenarios ==
    { Null, Num(3),
      Obj([name |-> Str(<<"a">>), before |-> Arr(<<Null>>),
           after |-> Arr(<<Obj([result |-> Result("passed")])>>)]) }
    \cup { MkObj([name |-> n, id |-> i, steps |-> Arr(<<PassedStep>>)]) :
             n \in NameValues, i \in {Absent, Str(<<"x">>)} }

\* Features of a report: null, undefined, a number, features by name and
\* elements, one with its scenarios under `scenarios`, and one whose elements
\* are no array.
ReportFeatures ==
    { Null, Undefined, Num(4),
      Obj([name |-> Str(<<"A">>), scenarios |-> Arr(<<Obj([name |-> Str(<<"b">>)])>>)]),
      Obj([name |-> Str(<<"A">>), elements |-> Num(3)]) }
    \cup { MkObj([name |-> n, elements |-> e]) :
             n \in NameValues,
             e \in {Absent, Arr(<<>>),
                    Arr(<<Obj([name |-> Str(<<"b">>), steps |-> Arr(<<PassedStep>>)])>>)} }

\* Reports: what is no array, one scenario over lists of steps, one feature
\* over lists of scenarios, and lists of features.
CjvInputs ==
    {Null, Undefined, EmptyObj, Num(7), Str(<<"a">>)}
    \cup { Arr(<<Obj([name |-> Str(<<"A">>),
                      elements |-> Arr(<<Obj([name |-> Str(<<"b">>), steps |-> Arr(st)])>>)])>>) :
             st \in SeqsUpTo(ReportSteps, MaxSteps) }
    \cup { Arr(<<Obj([name |-> Str(<<"A">>), elements |-> Arr(sc)])>>) :
             sc \in SeqsUpTo(ReportScenarios, MaxScenarios) }
    \cup { Arr(f) : f \in SeqsUpTo(ReportFeatures, MaxFeatures) }

\* Reports for a validator that was used before: one with an error (and a
\* skipped feature), one with a warning.
OtherReports ==
    { Arr(<<Num(4)>>), Arr(<<Obj([elements |-> Arr(<<>>)])>>) }

CjvOptionInputs ==
    { EmptyObj,
      Obj([generatePlaceholders |-> Bool(FALSE)]),
      Obj([maxErrors |-> Num(1)]),
      Obj([maxErrors |-> Num(2)]) }

-----------------------------------------------------------------------------
(* The validator as a state machine: an instance is constructed with some   *)
(* options, and validateReport is called on a report.                       *)

\* The fields of the instance.
Fields ==
    [validationErrors |-> validationErrors, validationWarnings |-> validationWarnings,
     processedEntries |-> processedEntries, skippedEntries |-> skippedEntries]

\* validator.validateReport(json); `on` tells which report json is.
CallValidateReport(json, on) ==
    /\ LET Called(r) ==
               /\ validationErrors' = r.v.validationErrors
               /\ validationWarnings' = r.v.validationWarnings
               /\ processedEntries' = r.v.processedEntries
               /\ skippedEntries' = r.v.skippedEntries
               /\ cjvRet' = [op |-> "validateReport", on |-> on, out |-> Returned(r.result)]
       IN Called(validateReport(cjvOptions, Fields, json))
    /\ cjvArg' = json
    /\ UNCHANGED cjvOptions
    /\ UNCHANGED <<tscVars, divVars, dtVars, panelVars, cacheVars>>

\* The report at hand is validated (again, when it was validated before).
ValidateReport ==
    \/ cjvRet.op = "none" /\ CallValidateReport(cjvArg, "report")
    \/ cjvRet.op # "none" /\ CallValidateReport(cjvArg, cjvRet.on)

\* The sanitized data of the last result is validated.
ValidateSanitized ==
    /\ cjvRet.op = "validateReport"
    /\ CallValidateReport(cjvRet.out.value.sanitizedData, "sanitizedData")

\* The instance is used again, on another report.
ValidateOther(json) ==
    /\ cjvRet.op = "validateReport"
    /\ CallValidateReport(json, "other")

\* The calculator is called on scenario j of feature i of the sanitized data
\* of the last result.
CalculateSanitizedStatus(i, j) ==
    /\ cjvRet.op = "validateReport"
    /\ Kind(cjvRet.out.value.sanitizedData) = "array"
    /\ i \in 1..Len(Val(cjvRet.out.value.sanitizedData))
    /\ j \in 1..Len(Val(Get(Val(cjvRet.out.value.sanitizedData)[i], "elements")))
    /\ tscArg' = Val(Get(Val(cjvRet.out.value.sanitizedData)[i], "elements"))[j]
    /\ tscRet' = [op |-> "calculateScenarioStatus",
                  out |-> Returned(calculateScenarioStatus(tscOptions, tscArg'))]
    /\ UNCHANGED tscOptions
    /\ UNCHANGED <<cjvVars, divVars, dtVars, panelVars, cacheVars>>

\* A validator constructed with some options and a report to hand to it; the
\* calculator is constructed with its defaults and left alone.
ValidatorInit ==
    /\ cjvOptions \in {CucumberJsonValidator(o) : o \in CjvOptionInputs}
    /\ cjvArg \in CjvInputs
    /\ validationErrors = <<>>
    /\ validationWarnings = <<>>
    /\ processedEntries = 0
    /\ skippedEntries = 0
    /\ cjvRet = NoCall
    /\ tscOptions = TestStatusCalculator(EmptyObj)
    /\ tscArg = Undefined
    /\ tscRet = NoCall
    /\ divOptions = DataIntegrityValidator(EmptyObj)
    /\ validationHistory = <<>>
    /\ divArg = Undefined
    /\ divRet = NoCall
    /\ dtArg = Undefined
    /\ dtRet = NoCall
    /\ ideOutputText = <<>>
    /\ ideOutput = Null
    /\ comparisonResults = Null
    /\ diagnosticResults = Null
    /\ debugInfo = Null
    /\ placeholderNames = <<>>
    /\ errorGuidanceCache = <<>>
    /\ dqmRet = NoCall

ValidatorNext ==
    \/ ValidateReport
    \/ ValidateSanitized
    \/ \E json \in OtherReports : ValidateOther(json)
    \/ \E i \in 1..MaxFeatures, j \in 1..MaxScenarios : CalculateSanitizedStatus(i, j)

ValidatorSpec == ValidatorInit /\ [][ValidatorNext]_vars

-----------------------------------------------------------------------------
(* Claims about the validator *)

ReportCall == cjvRet.op = "validateReport"
ReportResult == cjvRet.out.value

\* validateReport came to its end: the result carries sanitized features.
Sanitized == ReportCall /\ Kind(ReportResult.sanitizedData) = "array"

\* An entry of a report that is an object.
WellFormed(x) == Kind(x) = "object"

\* The list under a field of an entry, empty when there is none.
ListOf(x, field) == IF IsArray(Get(x, field)) THEN Val(Get(x, field)) ELSE <<>>

\* The scenarios of a feature of the report, under elements or scenarios.
InputElements(feature) ==
    LET e == Or(Get(feature, "elements"), Get(feature, "scenarios")) IN
    IF IsArray(e) THEN Val(e) ELSE <<>>

\* The positions of the entries of a list that satisfy Keep, in order.
Positions(list, Keep(_)) ==
    LET S == {i \in 1..Len(list) : Keep(list[i])} IN
    [k \in 1..Cardinality(S) |->
        CHOOSE i \in S : Cardinality({j \in S : j < i}) = k - 1]

\* The result lists a skipped entry of this type and index.
RecordedSkipped(type, index) ==
    \E e \in 1..Len(ReportResult.skippedEntries) :
        /\ ReportResult.skippedEntries[e].type = type
        /\ ReportResult.skippedEntries[e].index = index

\* C7: validateReport on a value that is no array does not throw and returns
\* isValid false, sanitizedData null and errors that hold the structure error.
C7_NonArrayRejected ==
    (ReportCall /\ ~IsArray(cjvArg)) =>
        /\ ~cjvRet.out.threw
        /\ ~ReportResult.isValid
        /\ Kind(ReportResult.sanitizedData) = "null"
        /\ \E e \in 1..Len(ReportResult.errors) :
              /\ ReportResult.errors[e].type = "error"
              /\ ReportResult.errors[e].message
                    = <<"Cucumber JSON must be an array of features">>

\* C7 witness: validateReport was called on {} and refused it with one error.
C7_Witness ==
    /\ ReportCall
    /\ cjvArg = EmptyObj
    /\ ~ReportResult.isValid
    /\ Len(ReportResult.errors) = 1

\* C8 (as claimed): on an array, the result carries sanitized features; each
\* feature, scenario and step that is no object is left out of them and
\* listed in skippedEntries, and each one that is an object is in them.
C8_MalformedSkippedSiblingsKept ==
    (ReportCall /\ IsArray(cjvArg)) =>
        /\ Kind(ReportResult.sanitizedData) = "array"
        /\ LET json == Val(cjvArg)
               out == Val(ReportResult.sanitizedData)
               fs == Positions(json, WellFormed)
           IN /\ Len(out) = Len(fs)
              /\ \A i \in 1..Len(json) :
                    ~WellFormed(json[i]) => RecordedSkipped("feature", i - 1)
              /\ \A a \in 1..Len(fs) :
                    LET scs == InputElements(json[fs[a]])
                        ss == Positions(scs, WellFormed)
                        outS == ListOf(out[a], "elements")
                    IN /\ Len(outS) = Len(ss)
                       /\ \A j \in 1..Len(scs) :
                             ~WellFormed(scs[j]) => RecordedSkipped("scenario", j - 1)
                       /\ \A b \in 1..Len(ss) :
                             LET sts == ListOf(scs[ss[b]], "steps") IN
                             /\ Len(ListOf(outS[b], "steps"))
                                   = Len(Positions(sts, WellFormed))
                             /\ \A k \in 1..Len(sts) :
                                   ~WellFormed(sts[k]) => RecordedSkipped("step", k - 1)

\* A name that is missing, no string, empty or blank.
NameMissing(name) ==
    ~Truthy(name) \/ Kind(name) # "string" \/ Trim(Val(name)) = <<>>

Placeholder(word, index) == <<word>> \o NumToStr(index) \o <<" (auto-generated)">>

\* The result holds a warning for this placeholder.
WarnedPlaceholder(type, placeholder) ==
    \E w \in 1..Len(ReportResult.warnings) :
        ReportResult.warnings[w].message
            = <<"Empty ", type, " name replaced with placeholder: ">> \o placeholder

\* A report in which nothing but names is to repair: features, scenarios and
\* steps are objects, and the steps have a name and a result.
OnlyNameRepairs ==
    /\ IsArray(cjvArg)
    /\ \A i \in 1..Len(Val(cjvArg)) :
          /\ WellFormed(Val(cjvArg)[i])
          /\ \A j \in 1..Len(InputElements(Val(cjvArg)[i])) :
                LET sc == InputElements(Val(cjvArg)[i])[j] IN
                /\ WellFormed(sc)
                /\ \A k \in 1..Len(ListOf(sc, "steps")) :
                      /\ WellFormed(ListOf(sc, "steps")[k])
                      /\ ~NameMissing(Get(ListOf(sc, "steps")[k], "name"))
                      /\ Kind(Get(ListOf(sc, "steps")[k], "result")) = "object"

\* C9 (as claimed): with placeholders on, in a report with nothing but names
\* to repair, every feature and scenario with a missing name is in the
\* sanitized data under its placeholder, with a warning for it, no error is
\* recorded and the result is valid.
C9_PlaceholderNames ==
    (ReportCall /\ cjvOptions.generatePlaceholders /\ OnlyNameRepairs) =>
        /\ ReportResult.isValid
        /\ ReportResult.errors = <<>>
        /\ Kind(ReportResult.sanitizedData) = "array"
        /\ Len(Val(ReportResult.sanitizedData)) = Len(Val(cjvArg))
        /\ \A i \in 1..Len(Val(cjvArg)) :
              LET feature == Val(cjvArg)[i]
                  out == Val(ReportResult.sanitizedData)[i]
              IN /\ NameMissing(Get(feature, "name")) =>
                        /\ Get(out, "name") = Str(Placeholder("Feature ", i - 1))
                        /\ WarnedPlaceholder("feature", Placeholder("Feature ", i - 1))
                 /\ Len(ListOf(out, "elements")) = Len(InputElements(feature))
                 /\ \A j \in 1..Len(InputElements(feature)) :
                       NameMissing(Get(InputElements(feature)[j], "name")) =>
                           /\ Get(ListOf(out, "elements")[j], "name")
                                 = Str(Placeholder("Scenario ", j - 1))
                           /\ WarnedPlaceholder("scenario", Placeholder("Scenario ", j - 1))

\* A scenario of the report that validateReport sanitizes: an object that has
\* an id or a name an id can be made of (generateId throws on a name that is
\* truthy and no string).
KeptScenario(sc) ==
    /\ WellFormed(sc)
    /\ \/ Truthy(Get(sc, "id"))
       \/ ~Truthy(Get(sc, "name"))
       \/ Kind(Get(sc, "name")) = "string"

NoResult(step) == Kind(Get(step, "result")) # "object"
NoResultNoStatus(step) == ~Truthy(Get(step, "result")) /\ ~Truthy(Get(step, "status"))

\* Every sanitized step satisfies Has.
EverySanitizedStep(Has(_)) ==
    \A i \in 1..Len(Val(ReportResult.sanitizedData)) :
        \A j \in 1..Len(ListOf(Val(ReportResult.sanitizedData)[i], "elements")) :
            LET sc == ListOf(Val(ReportResult.sanitizedData)[i], "elements")[j] IN
            \A k \in 1..Len(ListOf(sc, "steps")) : Has(ListOf(sc, "steps")[k])

\* Every step of the report that was sanitized and satisfies Arrived has the
\* default result in the sanitized data, a warning at its location and no
\* error at its location.
DefaultedWhere(Arrived(_)) ==
    LET json == Val(cjvArg)
        out == Val(ReportResult.sanitizedData)
        fs == Positions(json, WellFormed)
    IN \A a \in 1..Len(fs) :
          LET scs == InputElements(json[fs[a]])
              ss == Positions(scs, KeptScenario)
          IN \A b \in 1..Len(ss) :
                LET sts == ListOf(scs[ss[b]], "steps")
                    ks == Positions(sts, WellFormed)
                    outT == ListOf(ListOf(out[a], "elements")[b], "steps")
                    loc(c) == StepLocation(fs[a] - 1, ss[b] - 1, ks[c] - 1)
                IN \A c \in 1..Len(ks) :
                      Arrived(sts[ks[c]]) =>
                          /\ Get(outT[c], "result") = DefaultResult
                          /\ \E w \in 1..Len(ReportResult.warnings) :
                                /\ ReportResult.warnings[w].location = loc(c)
                                /\ ReportResult.warnings[w].message
                                      = <<"Step missing result/status, defaulting to unknown">>
                          /\ \A e \in 1..Len(ReportResult.errors) :
                                ReportResult.errors[e].location # loc(c)

HasResult(step) == Kind(Get(step, "result")) = "object"
HasResultOrStatus(step) == Truthy(Get(step, "result")) \/ Truthy(Get(step, "status"))

C11_Idempotent ==
    (ReportCall /\ cjvRet.on = "sanitizedData") =>
        ReportResult.sanitizedData = cjvArg

\* C11 witness: sanitized data with a placeholder name and a generated id was
\* validated again and nothing was left to repair.
C11_Witness ==
    /\ ReportCall
    /\ cjvRet.on = "sanitizedData"
    /\ Kind(cjvArg) = "array"
    /\ \E i \in 1..Len(Val(cjvArg)) :
          /\ Get(Val(cjvArg)[i], "name") = Str(Placeholder("Feature ", i - 1))
          /\ \E j \in 1..Len(ListOf(Val(cjvArg)[i], "elements")) :
                Get(ListOf(Val(cjvArg)[i], "elements")[j], "id")
                    = Str(<<"feature-">> \o NumToStr(i - 1) \o <<"-", "b", "-">> \o NumToStr(j - 1))
    /\ ReportResult.warnings = <<>>
    /\ ReportResult.isValid

\* The fields of an instance the constructor has just made.
FreshFields ==
    [validationErrors |-> <<>>, validationWarnings |-> <<>>,
     processedEntries |-> 0, skippedEntries |-> 0]

\* C12: the result of validateReport is the result a fresh validator with the
\* same options gives for the report, whatever the instance validated before
\* (so it holds no error or warning of an earlier call), and the result of
\* calculateScenarioStatus is a function of the options and the scenario.
C12_SameOnEveryCall ==
    /\ ReportCall =>
          /\ ReportResult = validateReport(cjvOptions, FreshFields, cjvArg).result
          /\ Fields = validateReport(cjvOptions, FreshFields, cjvArg).v
    /\ tscRet.op = "calculateScenarioStatus" =>
          tscRet.out = Returned(calculateScenarioStatus(tscOptions, tscArg))

\* C12 witness: a validator whose last result held errors was used on
\* another report, whose result holds its own warning and no error.
C12_Witness ==
    /\ ReportCall
    /\ cjvRet.on = "other"
    /\ cjvArg = Arr(<<Obj([elements |-> Arr(<<>>)])>>)
    /\ Len(ReportResult.warnings) = 1
    /\ ReportResult.errors = <<>>
    /\ tscRet.op = "calculateScenarioStatus"

\* The places <<i, j>> of the scenarios of the sanitized data.
SanitizedScenarios ==
    {p \in (1..Len(Val(ReportResult.sanitizedData))) \X (1..MaxElements) :
        p[2] <= Len(ListOf(Val(ReportResult.sanitizedData)[p[1]], "elements"))}

SanitizedScenario(p) == ListOf(Val(ReportResult.sanitizedData)[p[1]], "elements")[p[2]]

\* C13 (as claimed): every scenario of the sanitized data has a non-empty id,
\* no two of them have the same id, and a scenario that arrived without an id
\* has the id made of its feature index, its name and its scenario index.
C13_UniqueIds ==
    Sanitized =>
        /\ \A p \in SanitizedScenarios :
              /\ Kind(Get(SanitizedScenario(p), "id")) = "string"
              /\ Val(Get(SanitizedScenario(p), "id")) # <<>>
        /\ \A p, q \in SanitizedScenarios :
              p # q => Get(SanitizedScenario(p), "id") # Get(SanitizedScenario(q), "id")
        /\ LET json == Val(cjvArg)
               fs == Positions(json, WellFormed)
           IN \A a \in 1..Len(fs) :
                 LET scs == InputElements(json[fs[a]])
                     ss == Positions(scs, KeptScenario)
                 IN \A b \in 1..Len(ss) :
                       ~Truthy(Get(scs[ss[b]], "id")) =>
                           Get(SanitizedScenario(<<a, b>>), "id")
                               = generateId(Get(scs[ss[b]], "name"),
                                            fs[a] - 1, ss[b] - 1).value

\* What a fresh validator with the default maxErrors, and the other options
\* as they are, returns for the report.
DefaultCapResult ==
    validateReport([cjvOptions EXCEPT !.maxErrors = DefaultMaxErrors],
                   FreshFields, cjvArg).result

\* C14: the errors of a result are at most maxErrors: they are the first
\* maxErrors of the errors collected without the cap, and the sanitized data
\* is the one produced without the cap.
C14_ErrorsCapped ==
    ReportCall =>
        /\ Len(ReportResult.errors) <= cjvOptions.maxErrors
        /\ Len(validationErrors) <= cjvOptions.maxErrors
        /\ ReportResult.errors
              = SubSeq(DefaultCapResult.errors, 1, Len(ReportResult.errors))
        /\ \/ Len(ReportResult.errors) = cjvOptions.maxErrors
           \/ Len(ReportResult.errors) = Len(DefaultCapResult.errors)
        /\ ReportResult.sanitizedData = DefaultCapResult.sanitizedData

\* C14 witness: with maxErrors 1 a report with a feature that is no object
\* and further errors was validated: one error is kept, and the well-formed
\* features are in the sanitized data.
C14_Witness ==
    /\ Sanitized
    /\ cjvOptions.maxErrors = 1
    /\ Len(ReportResult.errors) = 1
    /\ Len(DefaultCapResult.errors) > 1
    /\ Len(Val(ReportResult.sanitizedData)) > 0

-----------------------------------------------------------------------------
(* Inputs of the integrity validator *)

PassedScenario == Obj([name |-> Str(<<"b">>), steps |-> Arr(<<PassedStep>>)])
FailedScenario ==
    Obj([name |-> Str(<<"b">>), steps |-> Arr(<<Obj([result |-> Result("failed")])>>)])
SkippedScenario ==
    Obj([name |-> Str(<<"b">>), steps |-> Arr(<<Obj([result |-> Result("skipped")])>>)])

\* A report of one feature with passed, failed and skipped scenarios.
RawReport(passed, failed, skipped) ==
    Arr(<<Obj([name |-> Str(<<"A">>),
               elements |-> Arr([i \in 1..passed |-> PassedScenario]
                                \o [i \in 1..failed |-> FailedScenario]
                                \o [i \in 1..skipped |-> SkippedScenario])])>>)

\* Count sets to compare: a scenario count up to MaxCount, with or without a
\* failed count.
SmallCounts ==
    {Obj([scenarios |-> Num(a)]) : a \in 0..MaxCount}
    \cup {Obj([scenarios |-> Num(a), failed |-> Num(1)]) : a \in 0..MaxCount}

\* Summaries whose counts add up, the summary of the README example, one
\* marked as parsed data, and no summary.
Summaries ==
    {Obj([scenarios |-> Num(a), passed |-> Num(a)]) : a \in 0..MaxCount}
    \cup { Obj([scenarios |-> Num(10), passed |-> Num(7), failed |-> Num(2),
                skipped |-> Num(1)]),
           Obj([scenarios |-> Num(2), passed |-> Num(2), _validation |-> Bool(TRUE)]),
           Null }

\* Raw reports: passed scenarios up to MaxCount, mixed ones with a background,
\* the report of the README example, and reports with null entries.
RawReports ==
    {RawReport(n, 0, 0) : n \in 0..MaxCount}
    \cup { RawReport(7, 2, 2),
           Arr(<<Obj([elements |-> Arr(<<PassedScenario, FailedScenario, SkippedScenario,
                                         Obj([type |-> Str(<<"background">>)]),
                                         Num(3)>>)])>>),
           Arr(<<Null>>),
           Arr(<<Obj([elements |-> Arr(<<Null>>)])>>),
           Arr(<<Obj([elements |-> Arr(<<Obj([steps |-> Arr(<<Null>>)])>>)])>>),
           Arr(<<Obj([elements |->
                        Arr(<<Obj([steps |-> Arr(<<Obj([status |-> Str(<<"failed">>)]),
                                                   PassedStep, Null>>)])>>)])>>) }

\* Counts of a report, among them impossible ones: a negative count, more
\* passed than scenarios, scenarios per feature and seconds per scenario at
\* and above their limits, missing fields, and what is no object.
ReportCounts ==
    { Obj([features |-> Num(1), scenarios |-> Num(10), passed |-> Num(10),
           failed |-> Num(0), skipped |-> Num(0)]),
      Obj([features |-> Num(1), scenarios |-> Num(6), passed |-> Num(5),
           failed |-> Num(-2), skipped |-> Num(3)]),
      Obj([features |-> Num(1), scenarios |-> Num(10), passed |-> Num(15),
           failed |-> Num(0), skipped |-> Num(0)]),
      Obj([features |-> Num(1), scenarios |-> Num(1000), passed |-> Num(1000),
           failed |-> Num(0)]),
      Obj([features |-> Num(1), scenarios |-> Num(1001), passed |-> Num(1001),
           failed |-> Num(0)]),
      Obj([features |-> Num(1), scenarios |-> Num(2), passed |-> Num(2),
           failed |-> Num(0), duration |-> Num(7200)]),
      Obj([features |-> Num(1), scenarios |-> Num(2), passed |-> Num(2),
           failed |-> Num(0), duration |-> Num(7201)]),
      EmptyObj, Num(5), Undefined }

DivInputs ==
    {[data |-> d, json |-> Null, expected |-> x] : d \in SmallCounts, x \in SmallCounts}
    \cup {[data |-> d, json |-> j, expected |-> x] :
             d \in Summaries, j \in RawReports,
             x \in {Null, Obj([totalScenarios |-> Num(2)])}}
    \cup {[data |-> d, json |-> j, expected |-> Null] :
             d \in ReportCounts, j \in {Null, RawReport(1, 0, 0), Arr(<<Null>>)}}

DivOptionInputs == {EmptyObj, Obj([tolerancePercentage |-> Num(50)])}

-----------------------------------------------------------------------------
(* The integrity validator as a state machine: an instance is constructed   *)
(* with some options, and its methods are called on the data at hand.       *)

ValidateTestCounts ==
    /\ Len(validationHistory) < MaxCalls
    /\ LET Called(r) ==
               /\ validationHistory' = r.history
               /\ divRet' = [op |-> "validateTestCounts", out |-> r.out]
       IN Called(validateTestCounts(divOptions, validationHistory,
                                    divArg.data, divArg.json))
    /\ UNCHANGED <<divOptions, divArg>>
    /\ UNCHANGED <<tscVars, cjvVars, dtVars, panelVars, cacheVars>>

\* counts1[field] is read first: a count set that is null or undefined throws.
CompareCountSets ==
    /\ divRet' = [op |-> "compareCountSets",
                  out |-> IF \/ Kind(divArg.data) \in {"null", "undefined"}
                             \/ Kind(divArg.expected) \in {"null", "undefined"}
                          THEN Thrown(<<"TypeError">>)
                          ELSE Returned(compareCountSets(divOptions, divArg.data,
                                                         divArg.expected, "given"))]
    /\ UNCHANGED <<divOptions, validationHistory, divArg>>
    /\ UNCHANGED <<tscVars, cjvVars, dtVars, panelVars, cacheVars>>

CrossValidateResults ==
    /\ divRet' = [op |-> "crossValidateResults",
                  out |-> Returned(crossValidateResults(divOptions, divArg.data,
                                                        divArg.json, divArg.expected))]
    /\ UNCHANGED <<divOptions, validationHistory, divArg>>
    /\ UNCHANGED <<tscVars, cjvVars, dtVars, panelVars, cacheVars>>

GenerateIntegrityReport ==
    /\ Len(validationHistory) < MaxCalls
    /\ LET Called(r) ==
               /\ validationHistory' = r.history
               /\ divRet' = [op |-> "generateIntegrityReport", out |-> r.out]
       IN Called(generateIntegrityReport(divOptions, validationHistory,
                                         divArg.data, divArg.json, divArg.expected))
    /\ UNCHANGED <<divOptions, divArg>>
    /\ UNCHANGED <<tscVars, cjvVars, dtVars, panelVars, cacheVars>>

\* An integrity validator constructed with some options and the data to hand
\* to it; the calculator and the validator are constructed with their
\* defaults and left alone.
IntegrityInit ==
    /\ divOptions \in {DataIntegrityValidator(o) : o \in DivOptionInputs}
    /\ validationHistory = <<>>
    /\ divArg \in DivInputs
    /\ divRet = NoCall
    /\ tscOptions = TestStatusCalculator(EmptyObj)
    /\ tscArg = Undefined
    /\ tscRet = NoCall
    /\ cjvOptions = CucumberJsonValidator(EmptyObj)
    /\ validationErrors = <<>>
    /\ validationWarnings = <<>>
    /\ processedEntries = 0
    /\ skippedEntries = 0
    /\ cjvArg = Undefined
    /\ cjvRet = NoCall
    /\ dtArg = Undefined
    /\ dtRet = NoCall
    /\ ideOutputText = <<>>
    /\ ideOutput = Null
    /\ comparisonResults = Null
    /\ diagnosticResults = Null
    /\ debugInfo = Null
    /\ placeholderNames = <<>>
    /\ errorGuidanceCache = <<>>
    /\ dqmRet = NoCall

IntegrityNext ==
    \/ ValidateTestCounts
    \/ CompareCountSets
    \/ CrossValidateResults
    \/ GenerateIntegrityReport

IntegritySpec == IntegrityInit /\ [][IntegrityNext]_vars

-----------------------------------------------------------------------------
(* Claims about the integrity validator *)

IntegrityCall(op) == divRet.op = op /\ ~divRet.out.threw

\* The fields of a list of discrepancies.
FieldsOf(discrepancies) == {discrepancies[i].field : i \in 1..Len(discrepancies)}

\* The fields validateTestCounts reported as differing from the calculated
\* summary.
CrossFlagged(validation) ==
    {validation.discrepancies[i].field :
        i \in {k \in 1..Len(validation.discrepancies) :
                  validation.discrepancies[k].type = "cross_validation_mismatch"}}

\* floor(max(a, b) * tolerancePercentage / 100) of the instance
ToleratedShare(a, b) == (Max(a, b) * divOptions.tolerancePercentage) \div 100

\* |a - b| <= max(1, floor(max(a, b) * tolerancePercentage / 100))
WithinTolerance(a, b) == Abs(a - b) <= Max(1, ToleratedShare(a, b))

\* The count validateTestCounts took from the provided summary for a field.
ProvidedCount(validation, field) ==
    IF field = "scenarios" THEN validation.summary.totalTests
    ELSE validation.summary[field]

\* C15: in every comparison of two count sets, by compareCountSets and by the
\* check of the provided summary against the calculated one in
\* validateTestCounts, a field with values a and b is accepted exactly when
\* |a - b| <= max(1, floor(max(a, b) * tolerancePercentage / 100)).
C15_ToleranceRule ==
    /\ IntegrityCall("compareCountSets") =>
          \A i \in 1..Len(CountFields) :
              (CountFields[i] \notin FieldsOf(divRet.out.value.discrepancies))
              <=> WithinTolerance(CountOf(divArg.data, CountFields[i]),
                                  CountOf(divArg.expected, CountFields[i]))
    /\ (IntegrityCall("validateTestCounts") /\ divRet.out.value.calculatedSummary # Null) =>
          \A field \in {"scenarios", "passed", "failed", "skipped"} :
              (field \notin CrossFlagged(divRet.out.value))
              <=> WithinTolerance(ProvidedCount(divRet.out.value, field),
                                  CountOf(divRet.out.value.calculatedSummary, field))

\* The comparisons a call made, each with the two count sets it compared:
\* the one of compareCountSets, or the first one of crossValidateResults,
\* which compares the counts of the original JSON with those of the data.
ComparisonsMade ==
    IF IntegrityCall("compareCountSets")
    THEN {[counts1 |-> divArg.data, counts2 |-> divArg.expected,
           comparison |-> divRet.out.value]}
    ELSE IF IntegrityCall("crossValidateResults") /\ divRet.out.value.comparisons # <<>>
    THEN {[counts1 |-> calculateSummaryFromRawData(divArg.json).value,
           counts2 |-> extractCountsFromParsedData(divArg.data).value,
           comparison |-> divRet.out.value.comparisons[1]]}
    ELSE {}

\* Every field of every comparison made satisfies Rule(difference, share,
\* flagged, consistent): the difference of its two values, the tolerated
\* share of the larger one, whether the field is among the discrepancies, and
\* whether the comparison is consistent.
EveryComparedField(Rule(_, _, _, _)) ==
    \A c \in ComparisonsMade : \A i \in 1..Len(CountFields) :
        Rule(Abs(CountOf(c.counts1, CountFields[i]) - CountOf(c.counts2, CountFields[i])),
             ToleratedShare(CountOf(c.counts1, CountFields[i]),
                            CountOf(c.counts2, CountFields[i])),
             CountFields[i] \in FieldsOf(c.comparison.discrepancies),
             c.comparison.isConsistent)

\* C16 as stated: a field whose values differ by floor(max(a,b) * t / 100) is
\* consistent, and one whose values differ by one more is a discrepancy and
\* the comparison is not consistent.
C16_FloorBoundary ==
    EveryComparedField(LAMBDA difference, share, flagged, consistent :
        /\ difference = share => ~flagged
        /\ difference = share + 1 => flagged /\ ~consistent)

\* C16, amended: the boundary is the tolerance max(1, floor(max(a,b) * t / 100)):
\* a field whose values differ by exactly the tolerance is consistent, and one
\* whose values differ by one more is a discrepancy and the comparison is not
\* consistent; a cross-validation with such a comparison is not valid.
C16_ToleranceBoundary ==
    /\ EveryComparedField(LAMBDA difference, share, flagged, consistent :
          /\ difference = Max(1, share) => ~flagged
          /\ difference = Max(1, share) + 1 => flagged /\ ~consistent)
    /\ IntegrityCall("crossValidateResults") =>
          (divRet.out.value.isValid
           <=> /\ divRet.out.value.issues = <<>>
               /\ \A i \in 1..Len(divRet.out.value.comparisons) :
                      divRet.out.value.comparisons[i].isConsistent)

\* A compareCountSets call flagged a field whose values differ by one more
\* than a tolerance above 1.
C16_Witness ==
    /\ IntegrityCall("compareCountSets")
    /\ ~divRet.out.value.isConsistent
    /\ \E i \in 1..Len(CountFields) :
          /\ ToleratedShare(CountOf(divArg.data, CountFields[i]),
                            CountOf(divArg.expected, CountFields[i])) > 1
          /\ Abs(CountOf(divArg.data, CountFields[i])
                 - CountOf(divArg.expected, CountFields[i]))
                = ToleratedShare(CountOf(divArg.data, CountFields[i]),
                                 CountOf(divArg.expected, CountFields[i])) + 1
          /\ CountFields[i] \in FieldsOf(divRet.out.value.discrepancies)

\* The summary and the raw report of the README example: 10 scenarios
\* provided, 11 in the report (7 passed, 2 failed, 2 skipped).
ExampleSummary ==
    Obj([scenarios |-> Num(10), passed |-> Num(7), failed |-> Num(2), skipped |-> Num(1)])
ExampleReport == RawReport(7, 2, 2)

ExampleCall ==
    /\ IntegrityCall("validateTestCounts")
    /\ divArg.data = ExampleSummary
    /\ divArg.json = ExampleReport

HasCountMismatch(validation) ==
    \E i \in 1..Len(validation.discrepancies) :
        validation.discrepancies[i].type = "count_mismatch"

\* C17 as stated: validateTestCounts on the example returns isValid = false
\* with a count_mismatch discrepancy, and a provided summary whose total
\* differs from the number of scenarios computed from the raw report is
\* reported as invalid.
C17_TotalDisagreementInvalid ==
    /\ ExampleCall =>
          ~divRet.out.value.isValid /\ HasCountMismatch(divRet.out.value)
    /\ (IntegrityCall("validateTestCounts") /\ divRet.out.value.calculatedSummary # Null
        /\ divRet.out.value.summary.totalTests
              # CountOf(divRet.out.value.calculatedSummary, "scenarios")) =>
          ~divRet.out.value.isValid

\* C17, amended: on the example the computed counts are 11 scenarios, 7
\* passed, 2 failed, 2 skipped, and the summary is valid without
\* discrepancies: its counts add up to its total, and each differs from the
\* computed one by no more than the tolerance of 1.  In general a
\* count_mismatch is recorded exactly when the provided passed + failed +
\* skipped + errors differs from the provided total; a provided total that
\* differs from the computed number of scenarios by more than
\* max(1, floor(max of the two * tolerancePercentage / 100)) is recorded as a
\* cross_validation_mismatch; and a summary with a discrepancy is invalid.
C17_MismatchBeyondTolerance ==
    /\ ExampleCall =>
          /\ divRet.out.value.isValid
          /\ divRet.out.value.discrepancies = <<>>
          /\ divRet.out.value.calculatedSummary
                = Obj([features |-> Num(1), scenarios |-> Num(11), steps |-> Num(11),
                       passed |-> Num(7), failed |-> Num(2), skipped |-> Num(2),
                       errors |-> Num(0)])
    /\ IntegrityCall("validateTestCounts") =>
          /\ HasCountMismatch(divRet.out.value)
                <=> (divRet.out.value.summary.passed + divRet.out.value.summary.failed
                     + divRet.out.value.summary.skipped + divRet.out.value.summary.errors
                        # divRet.out.value.summary.totalTests)
          /\ divRet.out.value.discrepancies # <<>> => ~divRet.out.value.isValid
          /\ (/\ divRet.out.value.calculatedSummary # Null
              /\ ~WithinTolerance(divRet.out.value.summary.totalTests,
                                  CountOf(divRet.out.value.calculatedSummary, "scenarios"))) =>
                "scenarios" \in CrossFlagged(divRet.out.value)

\* validateTestCounts returned for the example.
C17_Witness == ExampleCall /\ Len(validationHistory) > 0

\* generateIntegrityReport returned a report for counts that are an object.
ReportedCounts ==
    /\ IntegrityCall("generateIntegrityReport")
    /\ Kind(divArg.data) = "object"

IntegrityStatus == divRet.out.value.overallStatus

NegativeCount ==
    \E field \in {"features", "scenarios", "steps", "passed", "failed", "skipped",
                  "duration"} :
        /\ Kind(Get(divArg.data, field)) = "number"
        /\ Val(Get(divArg.data, field)) < 0

PassedAboveTotal == CountOf(divArg.data, "passed") > CountOf(divArg.data, "scenarios")

UnlikelyRatio ==
    /\ CountOf(divArg.data, "features") > 0
    /\ CountOf(divArg.data, "scenarios")
          > MaxScenariosPerFeature * CountOf(divArg.data, "features")

UnusualDuration ==
    /\ CountOf(divArg.data, "scenarios") > 0
    /\ CountOf(divArg.data, "duration")
          > MaxSecondsPerScenario * CountOf(divArg.data, "scenarios")

NegativeCountCritical == (ReportedCounts /\ NegativeCount) => IntegrityStatus = "critical"
PassedAboveTotalCritical ==
    (ReportedCounts /\ PassedAboveTotal) => IntegrityStatus = "critical"
UnlikelyRatioWarned ==
    (ReportedCounts /\ UnlikelyRatio) => IntegrityStatus \in {"warning", "critical"}
UnusualDurationWarned ==
    (ReportedCounts /\ UnusualDuration) => IntegrityStatus \in {"warning", "critical"}

\* C18: generateIntegrityReport flags each impossible state whatever the
\* tolerance is: a negative count or passed above the number of scenarios
\* makes overallStatus critical; more than 1000 scenarios per feature or more
\* than an hour per scenario make it warning at least.
C18_ImpossibleStatesFlagged ==
    /\ NegativeCountCritical
    /\ PassedAboveTotalCritical
    /\ UnlikelyRatioWarned
    /\ UnusualDurationWarned

\* An exception occurred while the report was made: the one caught by
\* generateIntegrityReport itself, or one validateTestCounts or
\* crossValidateResults caught and recorded as an issue.
ExceptionDuringChecking(report) ==
    \/ "error" \in DOMAIN report.validations
    \/ report.validations.countValidation.issues # <<>>
    \/ /\ report.validations.crossValidation # Null
       /\ report.validations.crossValidation.issues # <<>>

\* C19: generateIntegrityReport never throws; overallStatus is error when an
\* exception occurred during checking, otherwise critical if a finding is
\* critical, otherwise warning if a finding is a warning, otherwise healthy.
C19_StatusDerivation ==
    divRet.op = "generateIntegrityReport" =>
        /\ ~divRet.out.threw
        /\ divRet.out.value.overallStatus =
              IF ExceptionDuringChecking(divRet.out.value) THEN "error"
              ELSE IF divRet.out.value.summary.criticalIssues > 0 THEN "critical"
              ELSE IF divRet.out.value.summary.warnings > 0 THEN "warning"
              ELSE "healthy"

\* The counts handed to generateIntegrityReport do not add up to their total.
CountsDoNotAddUp ==
    CountOf(divArg.data, "passed") + CountOf(divArg.data, "failed")
        + CountOf(divArg.data, "skipped") + CountOf(divArg.data, "errors")
            # CountOf(divArg.data, "scenarios")

\* C29: when the counts handed to generateIntegrityReport do not add up to
\* their total, the count validation of the report is invalid with a
\* count_mismatch discrepancy, overallStatus is critical and
\* summary.criticalIssues is 1 at least.
C29_CountMismatchCritical ==
    (ReportedCounts /\ CountsDoNotAddUp) =>
        /\ ~divRet.out.value.validations.countValidation.isValid
        /\ HasCountMismatch(divRet.out.value.validations.countValidation)
        /\ IntegrityStatus = "critical"
        /\ divRet.out.value.summary.criticalIssues >= 1


-----------------------------------------------------------------------------
(* Inputs of the diagnostic tools *)

FailedHook == Obj([result |-> Result("failed")])

\* A report of one feature with one scenario of one passed step and the
\* given further fields.
ScenarioReport(fields) ==
    Arr(<<Obj([name |-> Str(<<"A">>),
               elements |-> Arr(<<Spread(PassedScenario, fields)>>)])>>)

\* Report data: what is no array, arrays with null entries, reports of passed,
\* failed and skipped scenarios, and scenarios with hooks (failed, null), an
\* unknown step status, a status calculated before, or a background.
DtReports ==
    { Null, Undefined, Num(3), EmptyObj, Arr(<<>>), Arr(<<Null>>), Arr(<<Num(4)>>),
      Arr(<<Obj([elements |-> Arr(<<Null>>)])>>),
      Arr(<<Obj([elements |-> Arr(<<PassedScenario, Null>>)])>>) }
    \cup {RawReport(p, f, s) : p \in 0..MaxScenarios, f \in 0..1, s \in 0..1}
    \cup { ScenarioReport([before |-> Arr(<<Null>>)]),
           ScenarioReport([before |-> Arr(<<FailedHook, Null>>)]),
           ScenarioReport([before |-> Arr(<<FailedHook>>)]),
           ScenarioReport([after |-> Arr(<<Null>>)]),
           ScenarioReport([before |-> Arr(<<FailedHook>>), after |-> Arr(<<Null>>)]),
           ScenarioReport([after |-> Arr(<<FailedHook>>)]),
           ScenarioReport([steps |-> Arr(<<Obj([result |-> Result("pending")])>>)]),
           ScenarioReport([steps |-> Arr(<<Obj([result |-> Result("pending")])>>),
                           _calculatedStatus |-> Result("passed")]),
           ScenarioReport([type |-> Str(<<"background">>)]) }

\* Original JSON: none, what is no array, a null feature, a well-formed
\* report, a name that is no string, missing names and results, and a named
\* scenario whose one step has no result.
DtOriginals ==
    { Null, Num(3), Arr(<<Null>>), RawReport(1, 0, 0),
      Arr(<<Obj([name |-> Num(5)])>>),
      Arr(<<Obj([elements |-> Arr(<<Obj([steps |-> Arr(<<EmptyObj, Null>>)])>>)])>>),
      Arr(<<Obj([name |-> Str(<<"A">>),
                 elements |-> Arr(<<Obj([name |-> Str(<<"b">>),
                                         steps |-> Arr(<<EmptyObj>>)])>>)])>>) }

DtInputs ==
    {[reportData |-> r, originalJson |-> j, expectedCounts |-> x] :
        r \in DtReports, j \in DtOriginals,
        x \in {Null, Obj([scenarios |-> Num(1)])}}

-----------------------------------------------------------------------------
(* The diagnostic tools as a state machine: an instance is constructed, and *)
(* its methods are called on the data at hand.                              *)

GenerateDiagnosticReport ==
    /\ Len(validationHistory) < MaxCalls
    /\ LET Called(r) ==
               /\ validationHistory' = r.history
               /\ dtRet' = [op |-> "generateDiagnosticReport", out |-> r.out]
       IN Called(generateDiagnosticReport(tscOptions, divOptions, validationHistory,
                                          dtArg.reportData, dtArg.originalJson,
                                          dtArg.expectedCounts))
    /\ UNCHANGED <<dtArg, divOptions, divArg, divRet>>
    /\ UNCHANGED <<tscVars, cjvVars, panelVars, cacheVars>>

\* The instance after its constructor, and the arguments to hand to it.
DiagnosticInit ==
    /\ dtArg \in DtInputs
    /\ dtRet = NoCall
    /\ ideOutputText = <<>>
    /\ ideOutput = Null
    /\ comparisonResults = Null
    /\ diagnosticResults = Null
    /\ debugInfo = Null
    /\ placeholderNames = <<>>
    /\ errorGuidanceCache = <<>>
    /\ dqmRet = NoCall
    /\ tscOptions = TestStatusCalculator(EmptyObj)
    /\ tscArg = Undefined
    /\ tscRet = NoCall
    /\ cjvOptions = CucumberJsonValidator(EmptyObj)
    /\ validationErrors = <<>>
    /\ validationWarnings = <<>>
    /\ processedEntries = 0
    /\ skippedEntries = 0
    /\ cjvArg = Undefined
    /\ cjvRet = NoCall
    /\ divOptions = DataIntegrityValidator(EmptyObj)
    /\ validationHistory = <<>>
    /\ divArg = Undefined
    /\ divRet = NoCall

DiagnosticNext == GenerateDiagnosticReport

DiagnosticSpec == DiagnosticInit /\ [][DiagnosticNext]_vars

-----------------------------------------------------------------------------
(* Claims about the diagnostic tools *)

DiagnosticCall == dtRet.op = "generateDiagnosticReport"
DiagnosticReport == dtRet.out.value

\* An exception occurred inside the analysis: the one the catch block of
\* generateDiagnosticReport recorded, one caught by analyzeValidation or
\* analyzeStatusCalculation, or one caught while the integrity report was made.
ExceptionInAnalysis(report) ==
    \/ report.error # Null
    \/ report.validation # Null /\ report.validation.threw
    \/ report.statusAnalysis.threw
    \/ report.integrityCheck # Null /\ ExceptionDuringChecking(report.integrityCheck)

\* C20: generateDiagnosticReport never throws and returns a report for every
\* input; its overallHealth is error, critical, poor, fair or good, and it is
\* error whenever an exception occurred inside the analysis.
C20_AlwaysReportWithHealth ==
    DiagnosticCall =>
        /\ ~dtRet.out.threw
        /\ DiagnosticReport.summary.overallHealth
              \in {"error", "critical", "poor", "fair", "good"}
        /\ ExceptionInAnalysis(DiagnosticReport) =>
              DiagnosticReport.summary.overallHealth = "error"

\* The report data given to generateDiagnosticReport is an array that none
\* of the analyses fails on.
WellFormedReportData ==
    /\ IsArray(dtArg.reportData)
    /\ ~ExtractCountsThrows(Val(dtArg.reportData))
    /\ ~DiagnosticReport.statusAnalysis.threw

\* C21: for a well-formed report and expected counts, the report of
\* generateDiagnosticReport has the status analysis, the integrity report
\* and a comparison with the expected counts, and its overallHealth is not
\* error.
C21_ComparisonWithExpected ==
    (DiagnosticCall /\ WellFormedReportData /\ Truthy(dtArg.expectedCounts)) =>
        /\ DiagnosticReport.statusAnalysis # Null
        /\ DiagnosticReport.integrityCheck # Null
        /\ DiagnosticReport.comparison # Null
        /\ DiagnosticReport.summary.overallHealth # "error"

\* The validation of the original JSON found a critical issue: a content
\* issue of severity error.
ValidationCritical(report) ==
    /\ report.validation # Null
    /\ \E i \in 1..Len(report.validation.contentIssues) :
           report.validation.contentIssues[i].severity = "error"

IntegrityCritical(report) ==
    report.integrityCheck # Null /\ report.integrityCheck.overallStatus = "critical"

\* C22: overallHealth is error if an exception occurred; else critical if the
\* integrity report is critical; else poor if the validation of the original
\* JSON found critical issues; else fair if a scenario has unknown status;
\* else good.
C22_HealthOrder ==
    DiagnosticCall =>
        DiagnosticReport.summary.overallHealth =
            IF ExceptionInAnalysis(DiagnosticReport) THEN "error"
            ELSE IF IntegrityCritical(DiagnosticReport) THEN "critical"
            ELSE IF ValidationCritical(DiagnosticReport) THEN "poor"
            ELSE IF DiagnosticReport.statusAnalysis.statusBreakdown.unknown > 0 THEN "fair"
            ELSE "good"

\* The number of recommendations of a priority in a report.
Recommended(report, priority) ==
    Cardinality({i \in 1..Len(report.recommendations) :
                    report.recommendations[i] = priority})

\* C26: the recommendations of a diagnostic report hold exactly one entry of
\* priority critical if the integrity report is critical, one of priority
\* high if the status analysis counted a setup failure, one of priority medium
\* if the comparison is of low confidence, and none of these otherwise,
\* however many scenarios show the condition.
C26_OneEntryPerCondition ==
    DiagnosticCall =>
        /\ Recommended(DiagnosticReport, "critical")
              = IF IntegrityCritical(DiagnosticReport) THEN 1 ELSE 0
        /\ Recommended(DiagnosticReport, "high")
              = IF DiagnosticReport.statusAnalysis.setupFailures > 0 THEN 1 ELSE 0
        /\ Recommended(DiagnosticReport, "medium")
              = IF /\ DiagnosticReport.comparison # Null
                   /\ DiagnosticReport.comparison.confidence = "low"
                THEN 1 ELSE 0


-----------------------------------------------------------------------------
(* The comparison with the IDE output as a state machine *)

\* Counts of an IDE output around those of the reports: scenarios, passed and
\* failed are given, skipped is not; and no output at all.
IdeOutputs ==
    {Obj([scenarios |-> Num(n), passed |-> Num(p), failed |-> Num(f)]) :
        n \in 0..(MaxScenarios + 1), p \in 0..MaxScenarios, f \in 0..1}
    \cup {Obj([scenarios |-> Num(1), passed |-> Num(0), failed |-> Num(0),
               skipped |-> Num(1)]),
          Null}

CompareWithIdeOutput ==
    /\ dtRet' = [op |-> "compareWithIdeOutput",
                 out |-> Returned(compareWithIdeOutput(tscOptions, dtArg.reportData,
                                                       dtArg.ideOutput))]
    /\ UNCHANGED dtArg
    /\ UNCHANGED <<tscVars, cjvVars, divVars, panelVars, cacheVars>>

\* The instance after its constructor, and the arguments to hand to it.
ComparisonInit ==
    /\ dtArg \in {[reportData |-> r, ideOutput |-> x] : r \in DtReports, x \in IdeOutputs}
    /\ dtRet = NoCall
    /\ ideOutputText = <<>>
    /\ ideOutput = Null
    /\ comparisonResults = Null
    /\ diagnosticResults = Null
    /\ debugInfo = Null
    /\ placeholderNames = <<>>
    /\ errorGuidanceCache = <<>>
    /\ dqmRet = NoCall
    /\ tscOptions = TestStatusCalculator(EmptyObj)
    /\ tscArg = Undefined
    /\ tscRet = NoCall
    /\ cjvOptions = CucumberJsonValidator(EmptyObj)
    /\ validationErrors = <<>>
    /\ validationWarnings = <<>>
    /\ processedEntries = 0
    /\ skippedEntries = 0
    /\ cjvArg = Undefined
    /\ cjvRet = NoCall
    /\ divOptions = DataIntegrityValidator(EmptyObj)
    /\ validationHistory = <<>>
    /\ divArg = Undefined
    /\ divRet = NoCall

ComparisonNext == CompareWithIdeOutput

ComparisonSpec == ComparisonInit /\ [][ComparisonNext]_vars

\* A comparison was made and did not end in its catch block.
ComparisonMade ==
    /\ dtRet.op = "compareWithIdeOutput"
    /\ ~dtRet.out.value.threw

\* The metrics the comparison lists as discrepancies.
Discrepant(comparison) ==
    {comparison.discrepancies[i].metric : i \in 1..Len(comparison.discrepancies)}

\* The compared metrics whose value in the IDE output equals the count
\* extractCounts gives for the report.
EqualMetrics ==
    {metric \in {"scenarios", "passed", "failed", "skipped"} :
        CountOf(dtArg.ideOutput, metric)
            = CountOf(extractCounts(tscOptions, dtArg.reportData).value, metric)}

\* C25: a comparison that was made has confidence high when all four metrics
\* are equal, medium when three are, low otherwise; the metrics that are equal
\* are the matches, the others are the discrepancies, and no metric is both.
C25_ConfidenceFromShare ==
    ComparisonMade =>
        /\ dtRet.out.value.confidence =
              IF Cardinality(EqualMetrics) = 4 THEN "high"
              ELSE IF Cardinality(EqualMetrics) = 3 THEN "medium"
              ELSE "low"
        /\ DOMAIN dtRet.out.value.matches = EqualMetrics
        /\ Discrepant(dtRet.out.value)
              = {"scenarios", "passed", "failed", "skipped"} \ EqualMetrics
        /\ Len(dtRet.out.value.discrepancies)
              = Cardinality(Discrepant(dtRet.out.value))

\* A comparison found three of the four metrics equal and is of medium
\* confidence.
C25_Witness ==
    /\ ComparisonMade
    /\ Cardinality(EqualMetrics) = 3
    /\ dtRet.out.value.confidence = "medium"
    /\ Len(dtRet.out.value.discrepancies) = 1

-----------------------------------------------------------------------------
(* Inputs of the debug panel *)

\* Texts of the IDE-output field: the two forms parseIdeOutput names, in
\* several spellings; texts with three numbers or more in no form; texts it
\* cannot read; the empty text and a blank one.
PanelTexts ==
    { <<"Tests run:", " ", "3", ",", " ", "Failures:", " ", "1", ",", " ",
        "Errors:", " ", "1", ",", " ", "Skipped:", " ", "0">>,
      <<"TESTS RUN:", "1", "2", ",", "Failures:", "2", ",", "Errors:", "0", ",",
        "Skipped:", "1">>,
      <<"3", " ", "tests", ",", " ", "1", " ", "failures", ",", " ", "0", " ",
        "skipped">>,
      <<"x", "1", " ", "Test", ",", "0", " ", "failure", ",", " ", "0", "\t", "skippe">>,
      <<"3", " ", "1", " ", "0">>,
      <<"r", "2", ":", "1", "/", "0", "/", "7">>,
      <<"Tests run:", " ", "2", ",", " ", "Failures:", " ", "0", ",", " ",
        "Skipped:", " ", "1">>,
      <<"3", "tests", ",", " ", "0", " ", "failures", ",", " ", "2", " ", "skipped">>,
      <<"x">>,
      <<"3">>,
      <<"3", " ", "tests">>,
      <<"Tests run:", " ", "3", ",", " ", "Failures:", " ", "1">>,
      <<>>,
      <<" ", "\n">> }

\* The props of the panel: a report, none, and a report with a null feature.
PanelProps ==
    {[reportData |-> r, originalJson |-> Null] :
        r \in {RawReport(2, 1, 0), Null, Arr(<<Null>>)}}

-----------------------------------------------------------------------------
(* The debug panel as a state machine: the component is created with its    *)
(* props, then the user edits the text of the IDE output and presses the    *)
(* buttons in any order.                                                     *)

\* An edit of the text field: v-model stores the text, then the handler of
\* @input parses it.
ParseIdeOutput ==
    /\ \E text \in PanelTexts :
          /\ ideOutputText' = text
          /\ ideOutput' = parseIdeOutput(text, ideOutput)
    /\ UNCHANGED <<comparisonResults, diagnosticResults, debugInfo>>
    /\ UNCHANGED <<tscVars, cjvVars, divVars, dtVars, cacheVars>>

\* compareWithIde: compareWithIdeOutput catches what it throws.
CompareWithIde ==
    /\ comparisonResults' =
          IF ~Truthy(ideOutput) \/ ~Truthy(dtArg.reportData) THEN comparisonResults
          ELSE compareWithIdeOutput(tscOptions, dtArg.reportData, ideOutput)
    /\ UNCHANGED <<ideOutputText, ideOutput, diagnosticResults, debugInfo>>
    /\ UNCHANGED <<tscVars, cjvVars, divVars, dtVars, cacheVars>>

\* runDiagnostics: generateDiagnosticReport catches what it throws.
RunDiagnostics ==
    /\ Len(validationHistory) < MaxCalls
    /\ IF ~Truthy(dtArg.reportData)
       THEN UNCHANGED <<diagnosticResults, debugInfo, validationHistory>>
       ELSE LET Called(r) ==
                    /\ validationHistory' = r.history
                    /\ diagnosticResults' = r.out.value
                    /\ debugInfo' = r.out.value.debugInfo
            IN Called(generateDiagnosticReport(tscOptions, divOptions,
                                               validationHistory, dtArg.reportData,
                                               dtArg.originalJson, ideOutput))
    /\ UNCHANGED <<ideOutputText, ideOutput, comparisonResults>>
    /\ UNCHANGED <<divOptions, divArg, divRet>>
    /\ UNCHANGED <<tscVars, cjvVars, dtVars, cacheVars>>

ClearDebugData ==
    /\ diagnosticResults' = Null
    /\ comparisonResults' = Null
    /\ debugInfo' = Null
    /\ ideOutputText' = <<>>
    /\ ideOutput' = Null
    /\ UNCHANGED <<tscVars, cjvVars, divVars, dtVars, cacheVars>>

\* data() of the component, with new DiagnosticTools() and its props.
PanelInit ==
    /\ dtArg \in PanelProps
    /\ dtRet = NoCall
    /\ ideOutputText = <<>>
    /\ ideOutput = Null
    /\ comparisonResults = Null
    /\ diagnosticResults = Null
    /\ debugInfo = Null
    /\ placeholderNames = <<>>
    /\ errorGuidanceCache = <<>>
    /\ dqmRet = NoCall
    /\ tscOptions = TestStatusCalculator(EmptyObj)
    /\ tscArg = Undefined
    /\ tscRet = NoCall
    /\ cjvOptions = CucumberJsonValidator(EmptyObj)
    /\ validationErrors = <<>>
    /\ validationWarnings = <<>>
    /\ processedEntries = 0
    /\ skippedEntries = 0
    /\ cjvArg = Undefined
    /\ cjvRet = NoCall
    /\ divOptions = DataIntegrityValidator(EmptyObj)
    /\ validationHistory = <<>>
    /\ divArg = Undefined
    /\ divRet = NoCall

PanelNext ==
    \/ ParseIdeOutput
    \/ CompareWithIde
    \/ RunDiagnostics
    \/ ClearDebugData

PanelSpec == PanelInit /\ [][PanelNext]_vars

-----------------------------------------------------------------------------
(* Claims about the debug panel *)

\* The counts of an IDE output, as numbers.
ExternalCounts(scenarios, failed, errors, skipped, passed) ==
    Obj([scenarios |-> Num(scenarios), failed |-> Num(failed), errors |-> Num(errors),
         skipped |-> Num(skipped), passed |-> Num(passed)])

\* The numbers a text of the first and of the second form names, and the
\* numbers of any text, in the order of the text.
FirstForm == Match(ideOutputText, pattern1)
SecondForm == Match(ideOutputText, pattern2)
NumbersOfText ==
    [i \in 1..Len(NumbersFrom(ideOutputText, 1)) |->
        ParseInt(NumbersFrom(ideOutputText, 1)[i])]

FirstFormCounts(n) ==
    ExternalCounts(n[1], n[2], n[3], n[4], n[1] - n[2] - n[3] - n[4])
NoErrorCounts(n) ==
    ExternalCounts(n[1], n[2], 0, n[3], n[1] - n[2] - n[3])

\* C23: the counts parsed from a text of the form "Tests run: N, Failures: F,
\* Errors: E, Skipped: S" are N, F, E, S and passed N-F-E-S; from a text of
\* the form "N tests, F failures, S skipped" they are N, F, S, errors 0 and
\* passed N-F-S; from a text of neither form with three numbers or more they
\* are the first three numbers as scenarios, failed and skipped.
C23_ParsedForms ==
    /\ FirstForm.matched =>
          ideOutput = FirstFormCounts([i \in 1..4 |-> ParseInt(FirstForm.groups[i])])
    /\ ~FirstForm.matched /\ SecondForm.matched =>
          ideOutput = NoErrorCounts([i \in 1..3 |-> ParseInt(SecondForm.groups[i])])
    /\ ~FirstForm.matched /\ ~SecondForm.matched /\ Len(NumbersOfText) >= 3 =>
          ideOutput = NoErrorCounts(NumbersOfText)

\* The text "Tests run: 3, Failures: 1, Errors: 1, Skipped: 0" was parsed.
C23_Witness ==
    /\ ideOutputText = <<"Tests run:", " ", "3", ",", " ", "Failures:", " ", "1", ",",
                         " ", "Errors:", " ", "1", ",", " ", "Skipped:", " ", "0">>
    /\ ideOutput = ExternalCounts(3, 1, 1, 0, 1)

\* The current text is not empty, is of no form and has fewer than three
\* numbers.
Unparseable ==
    /\ Trim(ideOutputText) # <<>>
    /\ ~FirstForm.matched
    /\ ~SecondForm.matched
    /\ Len(NumbersOfText) < 3

\* C24: whenever the current text is unparseable, the parsed external counts
\* are null.
C24_NoStaleCounts == Unparseable => ideOutput = Null

-----------------------------------------------------------------------------
(* Inputs of the data quality pipeline *)

\* Scenarios without a name: with an id that names them, with one id that
\* ends in 'unknown' and one, two or no steps, and without an id.
UnnamedScenarios ==
    { Obj([id |-> Str(<<"a", ";", "login", "-", "b">>), steps |-> Arr(<<PassedStep>>)]),
      Obj([id |-> Str(<<"a", ";", "unknown">>), steps |-> Arr(<<PassedStep>>)]),
      Obj([id |-> Str(<<"a", ";", "unknown">>),
           steps |-> Arr(<<PassedStep, PassedStep>>)]),
      Obj([id |-> Str(<<"a", ";", "unknown">>)]),
      Obj([name |-> Str(<<" ">>), steps |-> Arr(<<PassedStep>>)]),
      Obj([steps |-> Arr(<<PassedStep, PassedStep>>)]) }

\* A scenario whose step failed with the message.
ErrorScenario(message) ==
    Obj([name |-> Str(<<"b">>),
         steps |-> Arr(<<Obj([result |-> Obj([status |-> Str(<<"failed">>),
                                               error_message |-> Str(message)])])>>)])

FailureUri == Str(<<"classpath:io/cucumber/core/", "failure.feature">>)

\* Execution-error features, three of them of the same uri: of two reports
\* with different errors, and one with a null scenario.
ErrorFeatures ==
    { Obj([uri |-> FailureUri,
           elements |-> Arr(<<ErrorScenario(<<"java.lang.", "IllegalArgumentException",
                                              ": ", "Test name must not be null or empty">>)>>)]),
      Obj([uri |-> FailureUri,
           elements |-> Arr(<<PassedScenario,
                              ErrorScenario(<<"java.lang.", "ClassNotFoundException">>)>>)]),
      Obj([uri |-> FailureUri, elements |-> Arr(<<Null>>)]),
      Obj([uri |-> Str(<<"x", "/", "execution-error", "/", "a">>),
           elements |-> Arr(<<ErrorScenario(<<"IllegalArgumentException">>)>>)]) }

\* Reports of one feature of scenarios, with or without an execution-error
\* feature after it.
QualityReports ==
    {Arr(Val(RawReport(1, f, 0)) \o extra) :
        f \in 0..1, extra \in {<<>>} \cup {<<e>> : e \in ErrorFeatures}}

-----------------------------------------------------------------------------
(* The data quality pipeline as a state machine: one DataQualityManager     *)
(* with its two handlers, which are called on scenarios and features of      *)
(* several reports and reset in any order; and the counts of a report.       *)

GeneratePlaceholderName ==
    /\ \E scenario \in UnnamedScenarios :
          LET Called(r) ==
                  /\ placeholderNames' = r.names
                  /\ dqmRet' = [op |-> "generatePlaceholderName", arg |-> scenario,
                                out |-> r.out]
          IN Called(generatePlaceholderName(placeholderNames, scenario))
    /\ UNCHANGED errorGuidanceCache
    /\ UNCHANGED <<tscVars, cjvVars, divVars, dtVars, panelVars>>

GetExecutionErrorGuidance ==
    /\ \E feature \in ErrorFeatures :
          LET Called(r) ==
                  /\ errorGuidanceCache' = r.cache
                  /\ dqmRet' = [op |-> "getExecutionErrorGuidance", arg |-> feature,
                                out |-> r.out]
          IN Called(getExecutionErrorGuidance(errorGuidanceCache, feature))
    /\ UNCHANGED placeholderNames
    /\ UNCHANGED <<tscVars, cjvVars, divVars, dtVars, panelVars>>

\* DataQualityManager.clearCache clears the caches of both handlers.
ClearCache ==
    /\ placeholderNames' = <<>>
    /\ errorGuidanceCache' = <<>>
    /\ dqmRet' = [op |-> "clearCache"]
    /\ UNCHANGED <<tscVars, cjvVars, divVars, dtVars, panelVars>>

ExtractCounts ==
    /\ \E reportData \in QualityReports :
          dqmRet' = [op |-> "extractCounts", arg |-> reportData,
                     out |-> extractCounts(tscOptions, reportData)]
    /\ UNCHANGED <<placeholderNames, errorGuidanceCache>>
    /\ UNCHANGED <<tscVars, cjvVars, divVars, dtVars, panelVars>>

\* The pipeline after its constructors.
QualityInit ==
    /\ placeholderNames = <<>>
    /\ errorGuidanceCache = <<>>
    /\ dqmRet = NoCall
    /\ dtArg = Undefined
    /\ dtRet = NoCall
    /\ ideOutputText = <<>>
    /\ ideOutput = Null
    /\ comparisonResults = Null
    /\ diagnosticResults = Null
    /\ debugInfo = Null
    /\ tscOptions = TestStatusCalculator(EmptyObj)
    /\ tscArg = Undefined
    /\ tscRet = NoCall
    /\ cjvOptions = CucumberJsonValidator(EmptyObj)
    /\ validationErrors = <<>>
    /\ validationWarnings = <<>>
    /\ processedEntries = 0
    /\ skippedEntries = 0
    /\ cjvArg = Undefined
    /\ cjvRet = NoCall
    /\ divOptions = DataIntegrityValidator(EmptyObj)
    /\ validationHistory = <<>>
    /\ divArg = Undefined
    /\ divRet = NoCall

QualityNext ==
    \/ GeneratePlaceholderName
    \/ GetExecutionErrorGuidance
    \/ ClearCache
    \/ ExtractCounts

QualitySpec == QualityInit /\ [][QualityNext]_vars

-----------------------------------------------------------------------------
(* Claims about the data quality pipeline *)

\* C27: the value a call of generatePlaceholderName or
\* getExecutionErrorGuidance returns is the value an instance with empty
\* caches returns for the same object, and clearCache leaves no entry.
C27_MemoizationTransparent ==
    /\ dqmRet.op = "generatePlaceholderName" =>
          dqmRet.out = generatePlaceholderName(<<>>, dqmRet.arg).out
    /\ dqmRet.op = "getExecutionErrorGuidance" =>
          dqmRet.out = getExecutionErrorGuidance(<<>>, dqmRet.arg).out
    /\ dqmRet.op = "clearCache" =>
          placeholderNames = <<>> /\ errorGuidanceCache = <<>>

\* The features of a report that are no execution-error features.
RECURSIVE WithoutExecutionErrors(_)
WithoutExecutionErrors(features) ==
    IF features = <<>> THEN <<>>
    ELSE (IF isExecutionErrorFeature(Head(features)) THEN <<>> ELSE <<Head(features)>>)
         \o WithoutExecutionErrors(Tail(features))

\* C28: the passed, failed and skipped counts extractCounts gives for a report
\* are those of the report without its execution-error features.
C28_ExecutionErrorsNotCounted ==
    dqmRet.op = "extractCounts" /\ ~dqmRet.out.threw =>
        \A field \in {"passed", "failed", "skipped"} :
            Get(dqmRet.out.value, field)
                = Get(extractCounts(tscOptions,
                                    Arr(WithoutExecutionErrors(Val(dqmRet.arg)))).value,
                      field)

=============================================================================
